---- MODULE Spec2Model ----
(***************************************************************************)
(* Model of the Angular preview engine of the repository:                  *)
(*   convertAngularTemplateToHTML  (the template rewriter) and             *)
(*   processReusableComponents     (the recursive inliner),                *)
(* both of src/unnamed/part_006 (utils/angularParser).                     *)
(*                                                                         *)
(* Representation of text.  A JavaScript string is a sequence of atoms.    *)
(* An atom is either a maximal run of word characters (\w+, kept whole:    *)
(* "btn", "label") or one punctuation character (" ", "'", "-", "+", ...); *)
(* the two-character delimiters of an interpolation are the atoms "{{"     *)
(* and "}}".  Markup is a sequence of tokens: a text run (its atoms), an   *)
(* opening tag, a closing tag or a self-closing tag; a tag carries its     *)
(* name (atoms) and, verbatim, the attribute text between the name and     *)
(* the closing ">" or "/>" (atoms).  The regular expressions of the source *)
(* are applied as the source applies them: those that match inside a tag   *)
(* or a text run scan the atoms, those that match whole tags scan tokens.  *)
(***************************************************************************)
EXTENDS Integers, Sequences, FiniteSets, TLC

\* ------------------------------------------------------------------ text

\* JavaScript passes arguments by value: in The({e : v \in {x}}) the
\* argument x is evaluated once and e is evaluated with v its value.
The(S) == CHOOSE r \in S : TRUE

\* The least and the greatest element of a non-empty set of numbers.
Least(S) == CHOOSE x \in S : \A y \in S : x <= y
Greatest(S) == CHOOSE x \in S : \A y \in S : x >= y

\* The least element of a set of positions, or 0: where the leftmost
\* match of a regular expression starts.
FirstOf(S) == IF S = {} THEN 0 ELSE Least(S)

\* The punctuation atoms; every other atom is a word (\w+).
Punct ==
  {" ", "'", "\"", "+", "-", ".", "(", ")", "!", "=", "[", "]", "{{", "}}",
   "*", "/", ",", ":", ";", "|", "$", "@", "#", "{", "}", "\n", "<", ">"}

IsWord(a) == a \notin Punct

\* White space: \s
Space == {" ", "\n"}

Includes(s, a) == \E i \in 1..Len(s) : s[i] = a

\* The least index i >= from with s[i] in set, or 0.
IndexFrom(s, from, set) ==
  IF \E i \in from..Len(s) : s[i] \in set
  THEN Least({i \in from..Len(s) : s[i] \in set})
  ELSE 0

HasPrefixAt(s, i, p) ==
  /\ i >= 1 /\ i + Len(p) - 1 <= Len(s)
  /\ SubSeq(s, i, i + Len(p) - 1) = p

\* The least index j >= i that holds no white space: past a \s* at i.
SkipSpaces(s, i) ==
  IF \E j \in i..Len(s) : s[j] \notin Space
  THEN Least({j \in i..Len(s) : s[j] \notin Space})
  ELSE IF i > Len(s) THEN i ELSE Len(s) + 1

TrimStart(s_) == The({SubSeq(s, SkipSpaces(s, 1), Len(s)) : s \in {s_}})

TrimEnd(s_) ==
  The({
  IF \E j \in 1..Len(s) : s[j] \notin Space
  THEN SubSeq(s, 1, Greatest({j \in 1..Len(s) : s[j] \notin Space}))
  ELSE <<>>
  : s \in {s_}})

\* String.prototype.trim
Trim(s) == TrimEnd(TrimStart(s))

\* String.prototype.split(sep) for a one-atom separator.
RECURSIVE Split(_, _)
Split(s_, sep) ==
  The({
  LET i == IndexFrom(s, 1, {sep})
  IN  IF i = 0 THEN <<s>>
      ELSE <<SubSeq(s, 1, i - 1)>> \o Split(SubSeq(s, i + 1, Len(s)), sep)
  : s \in {s_}})

\* Array.prototype.join(sep)
RECURSIVE Join(_, _)
Join(parts_, sep) ==
  The({
  IF parts = <<>> THEN <<>>
  ELSE IF Len(parts) = 1 THEN parts[1]
  ELSE parts[1] \o sep \o Join(Tail(parts), sep)
  : parts \in {parts_}})

\* s with every atom of set removed: replace(/['"]/g, '')
Without(s, set) == SelectSeq(s, LAMBDA a : a \notin set)

\* replace(new RegExp(`\\b${key}\\b`, 'g'), repl): every word equal to key.
RECURSIVE ReplaceWord(_, _, _)
ReplaceWord(s_, key, repl) ==
  The({
  IF IndexFrom(s, 1, {key}) = 0 THEN s
  ELSE SubSeq(s, 1, IndexFrom(s, 1, {key}) - 1) \o repl
         \o ReplaceWord(SubSeq(s, IndexFrom(s, 1, {key}) + 1, Len(s)),
                        key, repl)
  : s \in {s_}})

\* String.prototype.toLowerCase, on the capitalised atoms of the model.
LowerAtom(a) ==
  CASE a = "Hidden"   -> "hidden"
    [] a = "Disabled" -> "disabled"
    [] a = "Loading"  -> "loading"
    [] a = "isLoading" -> "isloading"
    [] a = "Error"    -> "error"
    [] OTHER          -> a

ToLowerCase(s_) == The({[i \in 1..Len(s) |-> LowerAtom(s[i])] : s \in {s_}})

\* ---------------------------------------------------------------- values

\* A JavaScript value of a data context: a string, a boolean or an object.
\* s is the value's String(...) form, fields the own properties of an
\* object, as a data context.
StrVal(s) == [t |-> "string", s |-> s, fields |-> <<>>]

BoolVal(b) ==
  [t |-> "boolean", s |-> IF b THEN <<"true">> ELSE <<"false">>,
   fields |-> <<>>]

ObjVal(fields) ==
  [t |-> "object", s |-> <<"[", "object", " ", "Object", "]">>,
   fields |-> fields]

StringOf(v) == v.s

\* JavaScript truthiness: v || ''
Truthy(v) == IF v.t = "boolean" THEN v.s = <<"true">> ELSE v.s # <<>>

\* A data context (componentData / attrs): the object's own keys in
\* insertion order, each with its value.
Has(ctx, k) == \E i \in 1..Len(ctx) : ctx[i].key = k

Get(ctx, k) == ctx[CHOOSE i \in 1..Len(ctx) : ctx[i].key = k].val

\* obj[k] = v: a new key is appended, an existing one keeps its place.
Put(ctx_, k_, v_) ==
  The({
  IF Has(ctx, k)
  THEN [i \in 1..Len(ctx) |->
          IF ctx[i].key = k THEN [key |-> k, val |-> v] ELSE ctx[i]]
  ELSE Append(ctx, [key |-> k, val |-> v])
  : ctx \in {ctx_}, k \in {k_}, v \in {v_}})

\* componentData[str] !== undefined, for a property name given as text.
Defined(ctx, str) == Len(str) = 1 /\ Has(ctx, str[1])

Lookup(ctx, str) == Get(ctx, str[1])

\* ------------------------------------------------- the template rewriter

\* str.includes(needle) for a needle that lies inside one word: the words
\* of the model that contain it.
WordsContaining(needle) ==
  CASE needle = "Date"     -> {"Date", "getDate", "formatDate"}
    [] needle = "currency" -> {"currency", "formatcurrency"}
    [] needle = "status"   -> {"status", "getstatus"}
    [] needle = "loading"  -> {"loading", "isloading"}
    [] needle = "data"     -> {"data", "hasdata"}
    [] needle = "record"   -> {"record", "records"}
    [] needle = "item"     -> {"item", "items"}
    [] needle = "error"    -> {"error", "haserror"}
    [] OTHER               -> {needle}

IncludesText(s, needle) == \E i \in 1..Len(s) : s[i] \in WordsContaining(needle)

\* String(new Date().getFullYear())
CurrentYear == <<"2026">>

\* The for loop that resolves no part: always the placeholder.
WalkPathShallow(fields, parts, i) == parts[Len(parts)]

\* The for loop over the parts of a dotted expression, at part i, value
\* being an object with these fields: the text returned.
RECURSIVE WalkPath(_, _, _)
WalkPath(fields, parts, i) ==
  IF Len(parts[i]) = 1 /\ Has(fields, parts[i][1])
  THEN IF i = Len(parts) THEN StringOf(Get(fields, parts[i][1]))
       ELSE IF Get(fields, parts[i][1]).t = "object"
       THEN WalkPath(Get(fields, parts[i][1]).fields, parts, i + 1)
       ELSE parts[Len(parts)]
  ELSE parts[Len(parts)]

\* The callback of the interpolation replace: the text put in place of
\* {{ expr }}.
ResolveInterpolation(expr, componentData) ==
  LET trimmed == Trim(expr)
  IN  IF Includes(trimmed, "(") /\ Includes(trimmed, ")")
      THEN IF IncludesText(trimmed, "Date")
             THEN <<"Oct", " ", "24", ",", " ", "2023">>
           ELSE IF IncludesText(trimmed, "currency")
             THEN <<"$", "1", ",", "234", ".", "56">>
           ELSE IF IncludesText(trimmed, "status") THEN <<"Active">>
           ELSE <<"Sample", " ", "Value">>
      ELSE IF Defined(componentData, trimmed)
        THEN StringOf(Lookup(componentData, trimmed))
      ELSE IF Includes(trimmed, ".")
        THEN WalkPath(componentData, Split(trimmed, "."), 1)
      ELSE IF trimmed = <<"currentYear">>
                \/ trimmed = <<"new", " ", "Date", "(", ")", ".",
                               "getFullYear", "(", ")">>
        THEN CurrentYear
      ELSE trimmed

\* The index that closes a match of /\{\{([^}]+)\}\}/ starting at i, or 0.
InterpolationEnd(s, i) ==
  IF s[i] = "{{" /\ IndexFrom(s, i + 1, {"}}", "}"}) > i + 1
     /\ s[IndexFrom(s, i + 1, {"}}", "}"})] = "}}"
  THEN IndexFrom(s, i + 1, {"}}", "}"}) ELSE 0

\* replace(/\{\{([^}]+)\}\}/g, ...) over one run of atoms.
RECURSIVE ReplaceInterpolations(_, _)
ReplaceInterpolations(s_, componentData) ==
  The({
  The({
  IF i = 0 THEN s
  ELSE SubSeq(s, 1, i - 1)
         \o ResolveInterpolation(SubSeq(s, i + 1, InterpolationEnd(s, i) - 1),
                                 componentData)
         \o ReplaceInterpolations(
              SubSeq(s, InterpolationEnd(s, i) + 1, Len(s)), componentData)
  : i \in {FirstOf({k \in 1..Len(s) : InterpolationEnd(s, k) > 0})}})
  : s \in {s_}})

\* The closing quote of a non-empty "([^"]+)" value that starts at from,
\* or 0.
QuoteEnd(s, from) ==
  LET k == IndexFrom(s, from, {"\""}) IN IF k > from THEN k ELSE 0

\* The boolean HTML attributes of the two lists of the property-binding
\* callback: the one that defaults an unresolved value to false, and the
\* one that renders a true value as the bare name.
BooleanAttributesDefault ==
  {<<"readonly">>, <<"required">>, <<"checked">>, <<"selected">>, <<"hidden">>}

BooleanAttributesRender ==
  {<<"disabled">>, <<"readonly">>, <<"required">>, <<"checked">>,
   <<"selected">>, <<"hidden">>}

\* The forEach over Object.keys(componentData) of the class binding: each
\* key, in insertion order, replaced as a word by its value || ''.
RECURSIVE ReplaceKeys(_, _, _)
ReplaceKeys(classValue_, componentData, i) ==
  The({
  IF i > Len(componentData) THEN classValue
  ELSE ReplaceKeys(
         ReplaceWord(classValue, componentData[i].key,
                     IF Truthy(componentData[i].val)
                     THEN StringOf(componentData[i].val) ELSE <<>>),
         componentData, i + 1)
  : classValue \in {classValue_}})

\* [class]="value"
ClassParts(split) ==
  [i \in 1..Len(split) |-> Without(Trim(split[i]), {"'", "\""})]

ClassBinding(value, componentData) ==
  IF Includes(value, "'") \/ Includes(value, "\"")
  THEN <<"class", "=", "\"">>
         \o Trim(ReplaceKeys(Join(ClassParts(Split(value, "+")), <<" ">>),
                             componentData, 1))
         \o <<"\"">>
  ELSE IF Defined(componentData, Trim(value))
  THEN <<"class", "=", "\"">> \o StringOf(Lookup(componentData, Trim(value)))
         \o <<"\"">>
  ELSE <<"class", "=", "\"">> \o value \o <<"\"">>

\* The value a binding other than class and disabled resolves to.
ResolveProperty(prop, value, componentData) ==
  LET valueTrimmed == Trim(value)
      n == Len(valueTrimmed)
  IN  IF n >= 1 /\ valueTrimmed[1] = "'" /\ valueTrimmed[n] = "'"
      THEN StrVal(SubSeq(valueTrimmed, 2, n - 1))
      ELSE IF valueTrimmed = <<"true">> THEN BoolVal(TRUE)
      ELSE IF valueTrimmed = <<"false">> THEN BoolVal(FALSE)
      ELSE IF Defined(componentData, valueTrimmed)
        THEN Lookup(componentData, valueTrimmed)
      ELSE IF ToLowerCase(prop) \in BooleanAttributesDefault
        THEN BoolVal(FALSE)
      ELSE StrVal(valueTrimmed)

\* The rendering without the test for false: name="false" is written.
RenderPropertyKeepFalse(prop, propValue) ==
  IF StringOf(propValue) = <<"true">>
  THEN IF ToLowerCase(prop) \in BooleanAttributesRender
       THEN prop
       ELSE prop \o <<"=", "\"", "true", "\"">>
  ELSE prop \o <<"=", "\"">> \o StringOf(propValue) \o <<"\"">>

\* The HTML attribute a resolved value is written as.
RenderProperty(prop, propValue) ==
  IF StringOf(propValue) = <<"true">>
  THEN IF ToLowerCase(prop) \in BooleanAttributesRender
       THEN prop
       ELSE prop \o <<"=", "\"", "true", "\"">>
  ELSE IF StringOf(propValue) = <<"false">> THEN <<>>
  ELSE prop \o <<"=", "\"">> \o StringOf(propValue) \o <<"\"">>

\* The callback without the case of [disabled]: the binding is rendered
\* like any other.
PropertyBindingKeepDisabled(prop_, value_, componentData) ==
  The({
  IF prop = <<"class">> THEN ClassBinding(value, componentData)
  ELSE RenderProperty(prop, ResolveProperty(prop, value, componentData))
  : prop \in {prop_}, value \in {value_}})

\* The callback of the property-binding replace: the text put in place of
\* [prop]="value".
PropertyBinding(prop_, value_, componentData) ==
  The({
  IF prop = <<"class">> THEN ClassBinding(value, componentData)
  ELSE IF prop = <<"disabled">> THEN <<>>
  ELSE RenderProperty(prop, ResolveProperty(prop, value, componentData))
  : prop \in {prop_}, value \in {value_}})

\* The index that closes a match of /\[([^\]]+)\]="([^"]+)"/ starting at
\* i, or 0.
PropertyBindingEnd(s, i) ==
  LET close == IndexFrom(s, i + 1, {"]"})
  IN  IF s[i] = "[" /\ close > i + 1
         /\ HasPrefixAt(s, close + 1, <<"=", "\"">>)
      THEN QuoteEnd(s, close + 3) ELSE 0

\* replace(/\[([^\]]+)\]="([^"]+)"/g, ...) over one run of atoms.
RECURSIVE ReplacePropertyBindings(_, _)
ReplacePropertyBindings(s_, componentData) ==
  The({
  The({
  IF i = 0 THEN s
  ELSE SubSeq(s, 1, i - 1)
         \o PropertyBinding(
              SubSeq(s, i + 1, IndexFrom(s, i + 1, {"]"}) - 1),
              SubSeq(s, IndexFrom(s, i + 1, {"]"}) + 3,
                     PropertyBindingEnd(s, i) - 1),
              componentData)
         \o ReplacePropertyBindings(
              SubSeq(s, PropertyBindingEnd(s, i) + 1, Len(s)), componentData)
  : i \in {FirstOf({k \in 1..Len(s) : PropertyBindingEnd(s, k) > 0})}})
  : s \in {s_}})

\* The callback without the test for a negation: data, record or item
\* alone hides the element.
NgIfReplacementNoNegation(condition) ==
  The({
  IF \/ IncludesText(cond, "loading")
     \/ IncludesText(cond, "data")
     \/ IncludesText(cond, "record")
     \/ IncludesText(cond, "item")
     \/ \E i \in 1..Len(cond) :
          HasPrefixAt(cond, i, <<"length", " ", "=", "=", "=", " ", "0">>)
     \/ IncludesText(cond, "error")
  THEN <<"style", "=", "\"", "display", ":", " ", "none", " ", "!",
         "important", ";", "\"">>
  ELSE <<>>
  : cond \in {ToLowerCase(Trim(condition))}})

\* The callback of the *ngIf replace.
NgIfReplacement(condition) ==
  The({
  LET lengthIsZero ==
        \E i \in 1..Len(cond) :
          HasPrefixAt(cond, i, <<"length", " ", "=", "=", "=", " ", "0">>)
  IN  IF \/ IncludesText(cond, "loading")
         \/ /\ Includes(cond, "!")
            /\ \/ IncludesText(cond, "data")
               \/ IncludesText(cond, "record")
               \/ IncludesText(cond, "item")
         \/ lengthIsZero
         \/ IncludesText(cond, "error")
      THEN <<"style", "=", "\"", "display", ":", " ", "none", " ", "!",
             "important", ";", "\"">>
      ELSE <<>>
  : cond \in {ToLowerCase(Trim(condition))}})

\* The value of *ngFor="let\s+(\w+)\s+of\s+([^"]+)": let, a variable, of
\* and a non-empty rest, separated by white space.
IsNgForValue(v) ==
  LET a == SkipSpaces(v, 2)
      b == SkipSpaces(v, a + 1)
  IN  /\ Len(v) >= 1 /\ v[1] = "let"
      /\ a > 2 /\ a <= Len(v) /\ IsWord(v[a])
      /\ b > a + 1 /\ b <= Len(v) /\ v[b] = "of"
      /\ b + 1 <= Len(v) /\ v[b + 1] \in Space
      /\ Len(v) >= b + 2

\* The replacements with the *ngFor directive written back as it was.
AttributeReplacementKeepNgFor(rule, value, componentData) ==
  CASE rule = "ngIf" -> NgIfReplacement(value)
    [] rule = "ngFor" -> <<"*", "ngFor", "=", "\"">> \o value \o <<"\"">>
    [] rule = "routerLink" -> <<"href", "=", "\"">> \o value \o <<"\"">>
    [] rule = "routerLinkBinding" ->
         <<"href", "=", "\"">>
           \o (IF Defined(componentData, Trim(value))
                  /\ Truthy(Lookup(componentData, Trim(value)))
               THEN StringOf(Lookup(componentData, Trim(value)))
               ELSE Trim(value))
           \o <<"\"">>
    [] OTHER -> <<>>

\* The text the replaces that follow the property bindings put in place of
\* name="value", name being the text in front of the opening quote.
AttributeReplacement(rule, value, componentData) ==
  CASE rule = "ngIf" -> NgIfReplacement(value)
    [] rule = "routerLink" -> <<"href", "=", "\"">> \o value \o <<"\"">>
    [] rule = "routerLinkBinding" ->
         <<"href", "=", "\"">>
           \o (IF Defined(componentData, Trim(value))
                  /\ Truthy(Lookup(componentData, Trim(value)))
               THEN StringOf(Lookup(componentData, Trim(value)))
               ELSE Trim(value))
           \o <<"\"">>
    [] OTHER -> <<>>

\* The index that closes a match of /prefix([^"]+)"/ starting at i, or 0;
\* an *ngFor value must have the shape of the regular expression.
AttributeEnd(s, i, prefix, rule) ==
  IF /\ HasPrefixAt(s, i, prefix)
     /\ QuoteEnd(s, i + Len(prefix)) > 0
     /\ rule = "ngFor" =>
          IsNgForValue(SubSeq(s, i + Len(prefix),
                              QuoteEnd(s, i + Len(prefix)) - 1))
  THEN QuoteEnd(s, i + Len(prefix)) ELSE 0

\* One replace(/prefix([^"]+)"/g, ...) over one run of atoms.
RECURSIVE ReplaceAttribute(_, _, _, _)
ReplaceAttribute(s_, prefix, rule, componentData) ==
  The({
  The({
  IF i = 0 THEN s
  ELSE SubSeq(s, 1, i - 1)
         \o AttributeReplacement(
              rule,
              SubSeq(s, i + Len(prefix), AttributeEnd(s, i, prefix, rule) - 1),
              componentData)
         \o ReplaceAttribute(
              SubSeq(s, AttributeEnd(s, i, prefix, rule) + 1, Len(s)),
              prefix, rule, componentData)
  : i \in {FirstOf({k \in 1..Len(s) : AttributeEnd(s, k, prefix, rule) > 0})}})
  : s \in {s_}})

\* The replaces of convertAngularTemplateToHTML, in the order of the
\* source, over one run of atoms.
ConvertText(s, componentData) ==
  ReplaceAttribute(
    ReplaceAttribute(
      ReplaceAttribute(
        ReplaceAttribute(
          ReplaceAttribute(
            ReplaceAttribute(
              ReplaceAttribute(
                ReplaceAttribute(
                  ReplacePropertyBindings(
                    ReplaceInterpolations(s, componentData),
                    componentData),
                  <<"(", "click", ")", "=", "\"">>, "click", componentData),
                <<"*", "ngIf", "=", "\"">>, "ngIf", componentData),
              <<"*", "ngFor", "=", "\"">>, "ngFor", componentData),
            <<"(", "mouseenter", ")", "=", "\"">>, "mouseenter",
            componentData),
          <<"(", "mouseleave", ")", "=", "\"">>, "mouseleave", componentData),
        <<"routerLink", "=", "\"">>, "routerLink", componentData),
      <<"[", "routerLink", "]", "=", "\"">>, "routerLinkBinding",
      componentData),
    <<"routerLinkActive", "=", "\"">>, "routerLinkActive", componentData)

\* ---------------------------------------------------------------- markup

Text(s) == [k |-> "text", tag |-> <<>>, attrs |-> <<>>, s |-> s]
Open(tag, attrs) == [k |-> "open", tag |-> tag, attrs |-> attrs, s |-> <<>>]
Close(tag) == [k |-> "close", tag |-> tag, attrs |-> <<>>, s |-> <<>>]
SelfClosing(tag, attrs) ==
  [k |-> "self", tag |-> tag, attrs |-> attrs, s |-> <<>>]

\* The markup as one string: neighbouring text runs are one run, and an
\* empty run is no text at all.
RECURSIVE Normalise(_)
Normalise(m_) ==
  The({
  The({
  IF i = 0 THEN m
  ELSE IF m[i].s = <<>>
  THEN Normalise(SubSeq(m, 1, i - 1) \o SubSeq(m, i + 1, Len(m)))
  ELSE Normalise(SubSeq(m, 1, i - 1) \o <<Text(m[i].s \o m[i + 1].s)>>
                   \o SubSeq(m, i + 2, Len(m)))
  : i \in {FirstOf({k \in 1..Len(m) :
            /\ m[k].k = "text"
            /\ \/ m[k].s = <<>>
               \/ k < Len(m) /\ m[k + 1].k = "text"})}})
  : m \in {m_}})

\* The rewriter with a trailing trim(): white space at the two ends of the
\* markup is lost.
convertAngularTemplateToHTMLTrimmed(template, componentData) ==
  Normalise([i \in 1..Len(template) |->
    [f \in DOMAIN template[i] |->
       IF f \in {"s", "attrs"}
       THEN IF f = "s" /\ i = 1
            THEN TrimStart(ConvertText(template[i][f], componentData))
            ELSE IF f = "s" /\ i = Len(template)
            THEN TrimEnd(ConvertText(template[i][f], componentData))
            ELSE ConvertText(template[i][f], componentData)
       ELSE template[i][f]]])

\* convertAngularTemplateToHTML(template, componentData)
convertAngularTemplateToHTML(template, componentData) ==
  Normalise([i \in 1..Len(template) |->
    [f \in DOMAIN template[i] |->
       IF f \in {"s", "attrs"}
       THEN ConvertText(template[i][f], componentData)
       ELSE template[i][f]]])

\* ---------------------------------------------------- component records

\* A component record of componentsMetadata.  An absent field and an
\* empty one are both falsy: <<>>.
Component(id_name, selector, name, html_code, scss_code, ts_code) ==
  [id_name |-> id_name, selector |-> selector, name |-> name,
   html_code |-> html_code, scss_code |-> scss_code, ts_code |-> ts_code]

\* name.toLowerCase().replace('component', ''), on the class names of the
\* model: a string pattern replaces its first occurrence only.
NameToSelector(name) ==
  CASE name = <<"AppButtonComponent">> -> <<"appbutton">>
    [] name = <<"AppBadgeComponent">>  -> <<"appbadge">>
    [] name = <<"ComponentListComponent">> -> <<"listcomponent">>
    [] name = <<"Header">> -> <<"header">>
    [] OTHER -> ToLowerCase(name)

\* comp.id_name || comp.selector || comp.name?.toLowerCase().replace(...)
SelectorOf(comp) ==
  IF comp.id_name # <<>> THEN comp.id_name
  ELSE IF comp.selector # <<>> THEN comp.selector
  ELSE NameToSelector(comp.name)

\* componentMap[selector] is set: some record has the selector.
InComponentMap(componentsMetadata, selector) ==
  \E i \in 1..Len(componentsMetadata) :
    SelectorOf(componentsMetadata[i]) = selector /\ selector # <<>>

\* componentMap[selector]: the last record written under the selector.
ComponentMap(componentsMetadata, selector) ==
  LET at == {i \in 1..Len(componentsMetadata) :
               SelectorOf(componentsMetadata[i]) = selector}
  IN  componentsMetadata[CHOOSE i \in at : \A j \in at : j <= i]

\* tsCode.match(/export\s+class\s+(\w+)/)
HasExportClass(ts) ==
  \E i \in 1..Len(ts) :
    LET a == SkipSpaces(ts, i + 1)
        b == SkipSpaces(ts, a + 1)
    IN  /\ ts[i] = "export"
        /\ a > i + 1 /\ a <= Len(ts) /\ ts[a] = "class"
        /\ b > a + 1 /\ b <= Len(ts) /\ IsWord(ts[b])

\* The last atom of a match of /import\s+.*?from\s+['"].*?['"];?\s*/ at
\* the head of s, or 0; "." matches no line break.
ImportEnd(s) ==
  LET a == SkipSpaces(s, 2)
      f == IndexFrom(s, a, {"from", "\n"})
      q == SkipSpaces(s, f + 1)
      e == IndexFrom(s, q + 1, {"'", "\"", "\n"})
  IN  IF /\ Head(s) = "import" /\ a > 2
         /\ f # 0 /\ s[f] = "from"
         /\ q > f + 1 /\ q <= Len(s) /\ s[q] \in {"'", "\""}
         /\ e # 0 /\ s[e] # "\n"
      THEN SkipSpaces(s, IF HasPrefixAt(s, e + 1, <<";">>)
                         THEN e + 2 ELSE e + 1) - 1
      ELSE 0

\* The same for /@Component\s*\(\s*\{[^}]*\}\s*\)/.
DecoratorEnd(s) ==
  LET a == SkipSpaces(s, 3)
      b == SkipSpaces(s, a + 1)
      c == IndexFrom(s, b + 1, {"}"})
      d == SkipSpaces(s, c + 1)
  IN  IF /\ HasPrefixAt(s, 1, <<"@", "Component">>)
         /\ a <= Len(s) /\ s[a] = "("
         /\ b <= Len(s) /\ s[b] = "{"
         /\ c # 0 /\ d <= Len(s) /\ s[d] = ")"
      THEN d ELSE 0

\* The same for /word\s+(\w+)/ (second empty) and /word\s+second\s+(\w+)/.
WordsEnd(s, word, second) ==
  LET a == SkipSpaces(s, 2)
      b == IF second = <<>> THEN a ELSE SkipSpaces(s, a + 1)
  IN  IF /\ Head(s) = word /\ a > 2 /\ a <= Len(s)
         /\ second # <<>> => (s[a] = second[1] /\ b > a + 1 /\ b <= Len(s))
         /\ IsWord(s[b])
      THEN b ELSE 0

\* The same for /:\s*\w+(\[\])?(\s*\|\s*\w+)?/.
TypeEnd(s) ==
  LET a == SkipSpaces(s, 2)
      b == IF HasPrefixAt(s, a + 1, <<"[", "]">>) THEN a + 2 ELSE a
      bar == SkipSpaces(s, b + 1)
      c == SkipSpaces(s, bar + 1)
  IN  IF Head(s) = ":" /\ a <= Len(s) /\ IsWord(s[a])
      THEN IF bar <= Len(s) /\ s[bar] = "|" /\ c <= Len(s) /\ IsWord(s[c])
           THEN c ELSE b
      ELSE 0

\* The same for /:\s*void/.
VoidEnd(s) ==
  IF Head(s) = ":" /\ HasPrefixAt(s, SkipSpaces(s, 2), <<"void">>)
  THEN SkipSpaces(s, 2) ELSE 0

\* The last atom of a match, at the head of s, of the regular expression
\* of one of the replaces of the neutralizer, or 0.
NeutraliseMatch(s, regex) ==
  CASE regex = "import" -> ImportEnd(s)
    [] regex = "@Component" -> DecoratorEnd(s)
    [] regex = "export class" -> WordsEnd(s, "export", <<"class">>)
    [] regex = "type" -> TypeEnd(s)
    [] regex = "void" -> VoidEnd(s)
    [] regex = "@Input()" ->
         IF HasPrefixAt(s, 1, <<"@", "Input", "(", ")">>) THEN 4 ELSE 0
    [] regex = "@Output()" ->
         IF HasPrefixAt(s, 1, <<"@", "Output", "(", ")">>) THEN 4 ELSE 0
    [] regex = "EventEmitter" -> IF Head(s) = "EventEmitter" THEN 1 ELSE 0
    [] regex = "implements" -> WordsEnd(s, "implements", <<>>)

\* One replace of the neutralizer: every match is replaced by nothing,
\* that of export class by 'class $1'.
RECURSIVE NeutraliseReplace(_, _)
NeutraliseReplace(s_, regex) ==
  The({
  The({
  IF i = 0 THEN s
  ELSE The({
         SubSeq(s, 1, i - 1)
           \o (IF regex = "export class"
               THEN <<"class", " ", s[last]>> ELSE <<>>)
           \o NeutraliseReplace(SubSeq(s, last + 1, Len(s)), regex)
  : last \in {i + NeutraliseMatch(SubSeq(s, i, Len(s)), regex) - 1}})
  : i \in {FirstOf({k \in 1..Len(s) :
            NeutraliseMatch(SubSeq(s, k, Len(s)), regex) > 0})}})
  : s \in {s_}})

\* The rewriting of ts_code into the script of the preview: the chain of
\* replaces that makes jsCode.
Neutralise(ts) ==
  NeutraliseReplace(NeutraliseReplace(NeutraliseReplace(NeutraliseReplace(
  NeutraliseReplace(NeutraliseReplace(NeutraliseReplace(NeutraliseReplace(
  NeutraliseReplace(ts, "import"), "@Component"), "export class"), "type"),
  "void"), "@Input()"), "@Output()"), "EventEmitter"), "implements")

\* The @Input() properties of ts_code, in the order of their declaration:
\* the matches of /@Input\(\)\s+(\w+):/g.
InputEnd(ts, i) ==
  LET a == SkipSpaces(ts, i + 4)
  IN  IF /\ HasPrefixAt(ts, i, <<"@", "Input", "(", ")">>)
         /\ a > i + 4 /\ a + 1 <= Len(ts)
         /\ IsWord(ts[a]) /\ ts[a + 1] = ":"
      THEN a + 1 ELSE 0

\* The @Input() properties of ts_code, in the order of their declaration:
\* the matches of /@Input\(\)\s+(\w+):/g.
RECURSIVE Inputs(_)
Inputs(ts_) ==
  The({
  The({
  IF i = 0 THEN <<>>
  ELSE <<ts[InputEnd(ts, i) - 1]>>
         \o Inputs(SubSeq(ts, InputEnd(ts, i) + 1, Len(ts)))
  : i \in {FirstOf({k \in 1..Len(ts) : InputEnd(ts, k) > 0})}})
  : ts \in {ts_}})

\* The matches of /\{\{\s*(\w+)\s*\}\}/g in one run of atoms.
NameInterpolationEnd(s, i) ==
  LET a == SkipSpaces(s, i + 1)
      b == SkipSpaces(s, a + 1)
  IN  IF /\ s[i] = "{{"
         /\ a <= Len(s) /\ IsWord(s[a])
         /\ b <= Len(s) /\ s[b] = "}}"
      THEN b ELSE 0

\* The matches of /\{\{\s*(\w+)\s*\}\}/g in one run of atoms.
RECURSIVE InterpolationsIn(_)
InterpolationsIn(s_) ==
  The({
  The({
  IF i = 0 THEN <<>>
  ELSE <<s[SkipSpaces(s, i + 1)]>>
         \o InterpolationsIn(
              SubSeq(s, NameInterpolationEnd(s, i) + 1, Len(s)))
  : i \in {FirstOf({k \in 1..Len(s) : NameInterpolationEnd(s, k) > 0})}})
  : s \in {s_}})

\* The interpolated names of a component's html_code.
RECURSIVE Interpolations(_)
Interpolations(html_code_) ==
  The({
  IF html_code = <<>> THEN <<>>
  ELSE InterpolationsIn(Head(html_code).attrs)
         \o InterpolationsIn(Head(html_code).s)
         \o Interpolations(Tail(html_code))
  : html_code \in {html_code_}})

InSeq(x, seq) == \E i \in 1..Len(seq) : seq[i] = x

\* The first element of seq that satisfies both memberships, or "".
FirstIn(seq, a, b) ==
  The({IF i = 0 THEN "" ELSE seq[i]
       : i \in {FirstOf({k \in 1..Len(seq) :
                           InSeq(seq[k], a) /\ InSeq(seq[k], b)})}})

contentPropertyNames == <<"label", "text", "content", "title", "value", "name">>

\* The choice among the inputs of a component: a name of the preference
\* list that is an input and is interpolated, else the first input that
\* is interpolated, else the first input.
ContentProperty(inputs, interpolations) ==
  IF \E i \in 1..Len(contentPropertyNames) :
       InSeq(contentPropertyNames[i], inputs)
         /\ InSeq(contentPropertyNames[i], interpolations)
  THEN FirstIn(contentPropertyNames, inputs, interpolations)
  ELSE IF \E i \in 1..Len(inputs) : InSeq(inputs[i], interpolations)
  THEN FirstIn(inputs, inputs, interpolations)
  ELSE inputs[1]

\* The inner text always goes to "label".
InputPropertyNameLabel(component) == "label"

\* The property that receives the inner text of an instance.
InputPropertyName(component) ==
  IF component.ts_code # <<>> /\ component.html_code # <<>>
     /\ Inputs(component.ts_code) # <<>>
  THEN The({ContentProperty(a, b) :
                 a \in {Inputs(component.ts_code)},
                 b \in {Interpolations(component.html_code)}})
  ELSE "label"

\* propValue.replace(/^['"]|['"]$/g, '')
StripQuotes(v) ==
  LET a == IF v # <<>> /\ Head(v) \in {"'", "\""} THEN Tail(v) ELSE v
  IN  IF a # <<>> /\ a[Len(a)] \in {"'", "\""}
      THEN SubSeq(a, 1, Len(a) - 1) ELSE a

\* The index that closes a match of /\[(\w+)\]="([^"]+)"/ starting at i,
\* or 0.
NameBindingEnd(attributes, i) ==
  IF /\ i + 5 <= Len(attributes)
     /\ attributes[i] = "[" /\ IsWord(attributes[i + 1])
     /\ HasPrefixAt(attributes, i + 2, <<"]", "=", "\"">>)
  THEN QuoteEnd(attributes, i + 5) ELSE 0

\* The loop over /\[(\w+)\]="([^"]+)"/g: the property bindings of a tag.
RECURSIVE PropertyBindings(_, _)
PropertyBindings(attributes_, attrs_) ==
  The({
  The({
  IF i = 0 THEN attrs
  ELSE PropertyBindings(
         SubSeq(attributes, NameBindingEnd(attributes, i) + 1,
                Len(attributes)),
         Put(attrs, attributes[i + 1],
             StrVal(StripQuotes(
               SubSeq(attributes, i + 5,
                      NameBindingEnd(attributes, i) - 1)))))
  : i \in {FirstOf({k \in 1..Len(attributes) :
                      NameBindingEnd(attributes, k) > 0})}})
  : attributes \in {attributes_}, attrs \in {attrs_}})

\* The index of the quote that closes the value of the attribute named at
\* i, or 0 when the name has no quoted value.
ValueEnd(attributes, i) ==
  IF /\ i + 3 <= Len(attributes)
     /\ attributes[i + 1] = "=" /\ attributes[i + 2] \in {"'", "\""}
  THEN IndexFrom(attributes, i + 3, {"'", "\""}) ELSE 0

\* The loop over /(\w+)(?:=["']([^"']*)["'])?/g: the regular attributes of
\* a tag, which leave a key that is already set alone.
RECURSIVE RegularAttributes(_, _)
RegularAttributes(attributes_, attrs_) ==
  The({
  The({
  IF i = 0 THEN attrs
  ELSE The({
         RegularAttributes(
           SubSeq(attributes, (IF quote > 0 THEN quote ELSE i) + 1,
                  Len(attributes)),
           IF Has(attrs, attributes[i]) THEN attrs
           ELSE Put(attrs, attributes[i],
                    IF quote > 0
                    THEN StrVal(SubSeq(attributes, i + 3, quote - 1))
                    ELSE BoolVal(TRUE)))
  : quote \in {ValueEnd(attributes, i)}})
  : i \in {FirstOf({k \in 1..Len(attributes) : IsWord(attributes[k])})}})
  : attributes \in {attributes_}, attrs \in {attrs_}})

\* const attrs = {} ... of processComponent, up to the inner content.
ExtractAttributes(attributes) ==
  RegularAttributes(attributes, PropertyBindings(attributes, <<>>))

\* attrs.hasOwnProperty(attrName) is a call of whatever attrs holds under
\* hasOwnProperty.  Once a binding or an attribute of that name has set
\* the key (to a string or to true), the call of the next match of the
\* regular-attribute loop raises a TypeError: not a function.
RECURSIVE RegularAttributesRaise(_, _)
RegularAttributesRaise(attributes_, attrs_) ==
  The({
  The({
  IF i = 0 THEN FALSE
  ELSE IF Has(attrs, "hasOwnProperty") THEN TRUE
  ELSE The({
         RegularAttributesRaise(
           SubSeq(attributes, (IF quote > 0 THEN quote ELSE i) + 1,
                  Len(attributes)),
           Put(attrs, attributes[i], BoolVal(TRUE)))
  : quote \in {ValueEnd(attributes, i)}})
  : i \in {FirstOf({k \in 1..Len(attributes) : IsWord(attributes[k])})}})
  : attributes \in {attributes_}, attrs \in {attrs_}})

\* The extraction of the attributes raises.
ExtractAttributesRaises(attributes) ==
  RegularAttributesRaise(attributes, PropertyBindings(attributes, <<>>))

\* The attrs of an instance whose inner text leaves a key that an
\* attribute has set alone.
InstanceContextKeepExplicit(component, attributes, innerContent) ==
  LET attrs == ExtractAttributes(attributes)
  IN  IF Trim(innerContent) # <<>> /\ ~Has(attrs, InputPropertyName(component))
      THEN Put(attrs, InputPropertyName(component), StrVal(Trim(innerContent)))
      ELSE attrs

\* The attrs of an instance: the attributes of its tag and its inner text.
InstanceContext(component, attributes, innerContent) ==
  LET attrs == ExtractAttributes(attributes)
  IN  IF Trim(innerContent) # <<>>
      THEN Put(attrs, InputPropertyName(component), StrVal(Trim(innerContent)))
      ELSE attrs

\* ------------------------------------------------- the recursive inliner

maxIterations == 20

\* `\n/* Styles for ${selector} */\n${scss_code}\n`
StyleBlock(selector, scss_code) ==
  <<"\n", "/", "*", " ", "Styles", " ", "for", " ">> \o selector
    \o <<" ", "*", "/", "\n">> \o scss_code \o <<"\n">>

\* `\n/* Script for ${selector} */\n${jsCode}\n`
ScriptBlock(selector, jsCode) ==
  <<"\n", "/", "*", " ", "Script", " ", "for", " ">> \o selector
    \o <<" ", "*", "/", "\n">> \o jsCode \o <<"\n">>

\* The aggregation without the processedComponents test: a block for
\* every instance.
AggregateEveryInstance(st, selector, component) ==
  [st EXCEPT
     !.processed = @ \cup {selector},
     !.styles = IF component.scss_code # <<>>
                THEN @ \o StyleBlock(selector, component.scss_code)
                ELSE @,
     !.scripts = IF component.ts_code # <<>>
                    /\ HasExportClass(component.ts_code)
                 THEN @ \o ScriptBlock(selector, Neutralise(component.ts_code))
                 ELSE @]

\* The closure state of one processReusableComponents call that
\* processComponent reads and writes: allComponentStyles,
\* allComponentScripts, processedComponents; calls is the history of the
\* instances processed, each with the attrs handed to the rewriter.
\* if (!processedComponents.has(selector)) { ... }
Aggregate(st, selector, component) ==
  IF selector \in st.processed THEN st
  ELSE [st EXCEPT
          !.processed = @ \cup {selector},
          !.styles = IF component.scss_code # <<>>
                     THEN @ \o StyleBlock(selector, component.scss_code)
                     ELSE @,
          !.scripts = IF component.ts_code # <<>>
                         /\ HasExportClass(component.ts_code)
                      THEN @ \o ScriptBlock(selector,
                                            Neutralise(component.ts_code))
                      ELSE @]

\* processComponent(selector, attributes, innerContent): found is FALSE
\* for the null of an unregistered selector, html is the fragment, st the
\* closure state afterwards; st.raised says that the call, or one before
\* it, raised an exception instead of returning.
processComponent(st, selector, attributes, innerContent) ==
  IF ~InComponentMap(st.componentsMetadata, selector)
  THEN [found |-> FALSE, html |-> <<>>, st |-> st]
  ELSE The({
         [found |-> TRUE,
          html |-> convertAngularTemplateToHTML(component.html_code, attrs),
          st |-> [Aggregate(st, selector, component) EXCEPT
                    !.raised = @ \/ ExtractAttributesRaises(attributes),
                    !.calls =
                      Append(@, [selector |-> selector,
                                 attributes |-> attributes,
                                 innerContent |-> innerContent,
                                 attrs |-> attrs])]]
  : component \in {ComponentMap(st.componentsMetadata, selector)},
    attrs \in {InstanceContext(
                 ComponentMap(st.componentsMetadata, selector),
                 attributes, innerContent)}})

\* \w+(-\w+)* : a tag name with or without hyphens.
IsSelectorAnyName(tag) ==
  /\ Len(tag) >= 1 /\ Len(tag) % 2 = 1
  /\ \A i \in 1..Len(tag) :
       IF i % 2 = 1 THEN IsWord(tag[i]) ELSE tag[i] = "-"

\* \w+(-\w+)+ : words joined by hyphens, at least two.
IsSelector(tag) ==
  /\ Len(tag) >= 3 /\ Len(tag) % 2 = 1
  /\ \A i \in 1..Len(tag) :
       IF i % 2 = 1 THEN IsWord(tag[i]) ELSE tag[i] = "-"

\* The tokens a match of /<(\w+(-\w+)+)([^>]*)>([^<]*)<\/\1>/ at the head
\* of m spans: 2 with no inner text, 3 with one text run, or 0.
PairedMatch(m) ==
  IF Len(m) >= 2 /\ Head(m).k = "open" /\ IsSelector(Head(m).tag)
  THEN IF m[2].k = "close" /\ m[2].tag = Head(m).tag THEN 2
       ELSE IF Len(m) >= 3 /\ m[2].k = "text" /\ m[3].k = "close"
               /\ m[3].tag = Head(m).tag THEN 3
       ELSE 0
  ELSE 0

\* The tokens the regex of one of the three replace calls matches at the
\* head of m (0: no match here):
\*   "selfClosing"  /<(\w+(-\w+)+)([^>]*)\s*\/>/g
\*   "paired"       /<(\w+(-\w+)+)([^>]*)>([^<]*)<\/\1>/g
\*   "empty"        /<(\w+(-\w+)+)([^>]*)><\/\1>/g
MatchLength(m, regex) ==
  IF regex = "selfClosing"
  THEN IF Head(m).k = "self" /\ IsSelector(Head(m).tag) THEN 1 ELSE 0
  ELSE IF regex = "paired" THEN PairedMatch(m)
  ELSE IF PairedMatch(m) = 2 THEN 2 ELSE 0

\* The result of a replace: the piece emitted here, then the rest.
Emit(piece, rest_) ==
  The({
  [html |-> piece \o rest.html, st |-> rest.st]
  : rest \in {rest_}})

\* String.prototype.replace with a global regex and the callback
\*   (match, selector, attributes, content) =>
\*      processComponent(selector, attributes, content) || match
\* scanning left to right over non-overlapping matches.
RECURSIVE Replace(_, _, _)
RECURSIVE ReplaceMatch(_, _, _, _)
RECURSIVE ReplaceWith(_, _, _, _)
Replace(m_, st_, regex) ==
  The({
  The({
  IF i = 0 THEN [html |-> m, st |-> st]
  ELSE Emit(SubSeq(m, 1, i - 1),
            ReplaceMatch(SubSeq(m, i, Len(m)), st, regex,
                         MatchLength(SubSeq(m, i, Len(m)), regex)))
  : i \in {FirstOf({k \in 1..Len(m) :
            MatchLength(SubSeq(m, k, Len(m)), regex) > 0})}})
  : m \in {m_}, st \in {st_}})

ReplaceMatch(m, st, regex, n) ==
  ReplaceWith(m, regex, n,
    processComponent(st, Head(m).tag, Head(m).attrs,
                     IF n = 3 THEN m[2].s ELSE <<>>))

\* The callback without the null test: the fragment is substituted even
\* when there is none.
ReplaceWithUnchecked(m, regex, n, converted_) ==
  The({
  Emit(converted.html,
       Replace(SubSeq(m, n + 1, Len(m)), converted.st, regex))
  : converted \in {converted_}})

ReplaceWith(m, regex, n, converted_) ==
  The({
  Emit(IF converted.found THEN converted.html ELSE SubSeq(m, 1, n),
       Replace(SubSeq(m, n + 1, Len(m)), converted.st, regex))
  : converted \in {converted_}})

\* The result of a replace as the string it is: see Normalise.
Normalised(r_) ==
  The({
  [html |-> Normalise(r.html), st |-> r.st]
  : r \in {r_}})

\* replace(/<(\w+(-\w+)+)([^>]*)\s*\/>/g, ...): the self-closing tags.
ReplaceSelfClosing(r_) ==
  The({
  Normalised(Replace(r.html, r.st, "selfClosing"))
  : r \in {r_}})

\* replace(/<(\w+(-\w+)+)([^>]*)>([^<]*)<\/\1>/g, ...): the paired tags
\* with text content.
ReplacePaired(r_) ==
  The({
  Normalised(Replace(r.html, r.st, "paired"))
  : r \in {r_}})

\* replace(/<(\w+(-\w+)+)([^>]*)><\/\1>/g, ...): the empty paired tags.
ReplaceEmpty(r_) ==
  The({
  Normalised(Replace(r.html, r.st, "empty"))
  : r \in {r_}})

\* The body of the while loop: one pass of the two replaces.
LoopBody(r) == ReplaceEmpty(ReplacePaired(r))

\* ------------------------------------------------------------ the inputs

Q == "\""

\* name="value", [name]="expr" and (name)="handler" as attribute text.
Attr(name, value) == name \o <<"=", Q>> \o value \o <<Q>>
Binding(name, expr) == <<"[">> \o name \o <<"]", "=", Q>> \o expr \o <<Q>>
Event(name, handler) == <<"(">> \o name \o <<")", "=", Q>> \o handler \o <<Q>>

\* <tag attrs>text</tag>
Element(tag, attrs, text) ==
  Normalise(<<Open(tag, attrs), Text(text), Close(tag)>>)

AppButton == <<"app", "-", "button">>
AppIcon == <<"app", "-", "icon">>
AppCard == <<"app", "-", "card">>
AppLoop == <<"app", "-", "loop">>
AppNote == <<"app", "-", "note">>
AppTag == <<"app", "-", "tag">>
AppChip == <<"app", "-", "chip">>
AppDot == <<"app", "-", "dot">>
AppPing == <<"app", "-", "ping">>
AppPong == <<"app", "-", "pong">>
UnknownWidget == <<"unknown", "-", "widget">>

\* export class Name { @Input() a: string; ... }
RECURSIVE InputDeclarations(_)
InputDeclarations(names) ==
  IF names = <<>> THEN <<>>
  ELSE <<"\n", " ", "@", "Input", "(", ")", " ", Head(names), ":", " ",
         "string", ";">> \o InputDeclarations(Tail(names))

ExportedClass(name, inputs) ==
  <<"export", " ", "class", " ", name, " ", "{">>
    \o InputDeclarations(inputs) \o <<"\n", "}">>

\* The component library of the model.
ButtonComponent ==
  Component(AppButton, <<>>, <<"AppButtonComponent">>,
    Element(<<"button">>,
            <<" ">> \o Binding(<<"class">>,
                        <<"'", "btn", " ", "btn", "-", "'", " ", "+", " ",
                          "variant">>)
              \o <<" ">> \o Binding(<<"disabled">>, <<"disabled">>)
              \o <<" ">> \o Event(<<"click">>, <<"onClick", "(", ")">>),
            <<"{{", " ", "label", " ", "}}">>),
    <<".", "btn", " ", "{", "}">>,
    ExportedClass("AppButtonComponent", <<"label", "variant">>))

\* Styles, and a class that is not exported: no script.
IconComponent ==
  Component(AppIcon, <<>>, <<"AppIconComponent">>,
    Element(<<"i">>, <<" ">> \o Attr(<<"class">>, <<"icon">>), <<>>),
    <<".", "icon", " ", "{", "}">>,
    <<"class", " ", "AppIconComponent", " ", "{", "}">>)

\* No styles; its template holds a self-closing instance.
CardComponent ==
  Component(<<>>, AppCard, <<"AppCardComponent">>,
    <<Open(<<"div">>, <<" ">> \o Attr(<<"class">>, <<"card">>)),
      SelfClosing(AppIcon, <<" ">>), Close(<<"div">>)>>,
    <<>>,
    ExportedClass("AppCardComponent", <<>>))

\* Its template holds an instance of itself.
LoopComponent ==
  Component(AppLoop, <<>>, <<"AppLoopComponent">>,
    <<Text(<<"x">>), Open(AppLoop, <<>>), Close(AppLoop)>>,
    <<".", "loop", " ", "{", "}">>,
    <<>>)

\* Two conventional inputs, both interpolated; its expansion is text.
NoteComponent ==
  Component(AppNote, <<>>, <<"AppNoteComponent">>,
    <<Text(<<"{{", "title", "}}", ":", " ", "{{", "label", "}}">>)>>,
    <<".", "note", " ", "{", "}">>,
    ExportedClass("AppNoteComponent", <<"title", "label">>))

\* An input and an empty template.
TagComponent ==
  Component(AppTag, <<>>, <<"AppTagComponent">>,
    <<>>,
    <<".", "tag", " ", "{", "}">>,
    ExportedClass("AppTagComponent", <<"title">>))

\* No conventional input; the second input is interpolated.
ChipComponent ==
  Component(AppChip, <<>>, <<"AppChipComponent">>,
    Element(<<"span">>, <<>>, <<"{{", "size", "}}">>),
    <<>>,
    ExportedClass("AppChipComponent", <<"icon", "size">>))

\* No input is interpolated.
DotComponent ==
  Component(AppDot, <<>>, <<"AppDotComponent">>,
    Element(<<"b">>, <<>>, <<"dot">>),
    <<>>,
    ExportedClass("AppDotComponent", <<"icon", "size">>))

\* Two components whose templates hold an instance of each other.
PingComponent ==
  Component(AppPing, <<>>, <<"AppPingComponent">>,
    Element(AppPong, <<>>, <<>>), <<>>, <<>>)

PongComponent ==
  Component(AppPong, <<>>, <<"AppPongComponent">>,
    Element(AppPing, <<>>, <<>>), <<>>, <<>>)

Library ==
  <<ButtonComponent, IconComponent, CardComponent, LoopComponent,
    NoteComponent, TagComponent, ChipComponent, DotComponent,
    PingComponent, PongComponent>>

\* The registries a call is made with: none, the library, and the library
\* with the button registered a second time without styles or script.
Registries ==
  {<<>>, Library,
   Library \o <<[ButtonComponent EXCEPT !.scss_code = <<>>,
                                        !.ts_code = <<>>]>>}

\* The pieces a page is made of.
Snippets ==
  {Element(AppButton, <<" ">> \o Attr(<<"variant">>, <<"primary">>),
           <<"Save">>),
   Element(AppButton, <<" ">> \o Binding(<<"label">>, <<"'", "Go", "'">>)
                        \o <<" ", "disabled">>, <<>>),
   <<SelfClosing(AppIcon, <<" ">>)>>,
   Element(AppCard, <<>>, <<>>),
   Element(AppLoop, <<>>, <<>>),
   <<Open(AppCard, <<>>)>> \o Element(AppButton, <<>>, <<"OK">>)
     \o <<Close(AppCard)>>,
   Element(AppNote, <<>>, <<" ", "Hi", " ">>),
   Element(AppTag, <<>>, <<"New">>),
   Element(AppChip, <<>>, <<"Hot">>),
   Element(AppDot, <<>>, <<"Go">>),
   Element(AppPing, <<>>, <<>>),
   Element(UnknownWidget, <<" ">> \o Attr(<<"foo">>, <<"1">>), <<>>),
   Element(UnknownWidget, <<>>, <<"plain">>),
   <<SelfClosing(UnknownWidget, <<>>)>>,
   Element(<<"p">>, <<>>, <<"Hello">>)}

MaxSnippets == 2

\* The pages of at most n snippets.
RECURSIVE Pages(_)
Pages(n) ==
  IF n = 0 THEN {<<>>}
  ELSE Pages(n - 1)
         \cup {Normalise(p \o x) : p \in Pages(n - 1), x \in Snippets}

\* The templates and contexts convertAngularTemplateToHTML is called with.

\* [name]="expr" for the names and expressions of the model.
BindingNames ==
  {<<"title">>, <<"readonly">>, <<"checked">>, <<"Hidden">>, <<"Disabled">>,
   <<"data", "-", "id">>}

BindingExpressions ==
  {<<"'", "Hi", "'">>, <<"'", "false", "'">>, <<"'", "true", "'">>,
   <<"true">>, <<"false">>, <<"flag">>, <<" ", "label", " ">>, <<"off">>,
   <<"missing">>}

PropertyBindingSnippets ==
  {Binding(n, e) : n \in BindingNames, e \in BindingExpressions}

DisabledExpressions ==
  {<<"true">>, <<"disabled">>, <<"!", "valid">>, <<"'", "x", "'">>,
   <<"flag">>, <<"missing">>}

DisabledBindingSnippets == {Binding(<<"disabled">>, e) : e \in DisabledExpressions}

\* 'literal' + key
Concatenation(literal, key) == <<"'">> \o literal \o <<"'", " ", "+", " ", key>>

ClassLiterals == {<<"btn", " ", "btn", "-">>, <<"is", "-">>}
ClassKeys == {"variant", "label"}

ClassBindingSnippets ==
  {Binding(<<"class">>, Concatenation(l, k)) : l \in ClassLiterals, k \in ClassKeys}
    \cup {Binding(<<"class">>, <<"variant">>),
          Binding(<<"class">>, <<"missing">>),
          Binding(<<"class">>, <<"'", "a", "'", " ", "+", " ", "'", "b", "'">>)}

PlainSnippets ==
  {Attr(<<"class">>, <<"card">>), Attr(<<"id">>, <<"main">>), <<"disabled">>,
   Attr(<<"title">>, <<"Hi", " ", "there">>),
   <<"data", "-", "x", "=", "'", "1", "'">>}

DirectiveSnippets ==
  {Event(<<"click">>, <<"go", "(", ")">>),
   Event(<<"mouseenter">>, <<"a", "(", ")">>),
   Event(<<"mouseleave">>, <<"b", "(", ")">>),
   Event(<<"keyup">>, <<"k", "(", ")">>),
   Event(<<"saved">>, <<"onSaved", "(", ")">>),
   <<"*">> \o Attr(<<"ngIf">>, <<"loading">>),
   <<"*">> \o Attr(<<"ngIf">>, <<"items", ".", "length">>),
   <<"*">> \o Attr(<<"ngFor">>, <<"let", " ", "x", " ", "of", " ", "xs">>),
   Attr(<<"routerLink">>, <<"/", "home">>),
   Binding(<<"routerLink">>, <<"home">>),
   Attr(<<"routerLinkActive">>, <<"active">>)}

AttributeSnippets ==
  PropertyBindingSnippets \cup DisabledBindingSnippets
    \cup ClassBindingSnippets \cup PlainSnippets \cup DirectiveSnippets

MaxAttributes == 1

\* The lists of at most n attribute snippets.
RECURSIVE AttributeLists(_)
AttributeLists(n) ==
  IF n = 0 THEN {<<>>}
  ELSE AttributeLists(n - 1)
         \cup {Append(l, x) : l \in AttributeLists(n - 1), x \in AttributeSnippets}

\* The attribute text of a tag that carries the snippets of l.
RECURSIVE AttributeText(_)
AttributeText(l) ==
  IF l = <<>> THEN <<>> ELSE <<" ">> \o Head(l) \o AttributeText(Tail(l))

\* <div attributes>Hello</div>
Tagged(l) == Element(<<"div">>, AttributeText(l), <<"Hello">>)

\* Templates without a snippet list: text runs and several tags.
OtherTemplates ==
  {<<>>,
   <<Text(<<" ", "Hello", " ">>)>>,
   <<Text(<<"f", "(", "x", ")", " ", "[", "a", "]", " ", "2", " ", "*", " ",
            "3">>)>>,
   Element(<<"p">>, <<>>, <<"{{", " ", "label", " ", "}}">>),
   Element(<<"p">>, <<>>, <<"{{", "missing", "}}">>),
   Element(<<"p">>, <<>>, <<"{{", " ", "getName", "(", ")", " ", "}}">>),
   Element(<<"p">>, <<>>, <<"{{", "user", ".", "name", "}}">>),
   <<Open(<<"ul">>, <<" ">> \o Attr(<<"class">>, <<"list">>)),
     Open(<<"li">>, <<>>), Text(<<"One">>), Close(<<"li">>),
     SelfClosing(<<"br">>, <<" ">>), Close(<<"ul">>)>>}

\* *ngFor="let item of rest"
NgFor(item, rest) ==
  <<"*">> \o Attr(<<"ngFor">>, <<"let", " ", item, " ", "of", " ">> \o rest)

\* The attribute lists of a repeated element: the directive alone, with an
\* index variable, and next to a plain attribute or an *ngIf.
NgForLists ==
  {<<NgFor("x", <<"items">>)>>,
   <<NgFor("x", <<"items", ";", " ", "let", " ", "i", " ", "=", " ",
                  "index">>)>>,
   <<Attr(<<"class">>, <<"row">>), NgFor("x", <<"items">>)>>,
   <<<<"*">> \o Attr(<<"ngIf">>, <<"items", ".", "length">>),
     NgFor("x", <<"items">>)>>,
   <<NgFor("x", <<"items">>), <<"*">> \o Attr(<<"ngIf">>, <<"loading">>)>>}

\* <div attributes>{{x}}</div>
Repeated(l) == Element(<<"div">>, AttributeText(l), <<"{{", "x", "}}">>)

\* The expressions of an interpolation: keys, dot paths that resolve and
\* that do not, current-year expressions, method calls and other text.
InterpolationExpressions ==
  {<<" ", "label", " ">>, <<"flag">>, <<"user">>, <<"missing">>,
   <<"user", ".", "name">>, <<" ", "user", ".", "active", " ">>,
   <<"user", ".", "address", ".", "city">>, <<"user", ".", "address">>,
   <<"user", ".", "age">>, <<"user", ".", "name", ".", "first">>,
   <<"missing", ".", "name">>, <<"label", ".", "length">>,
   <<"currentYear">>,
   <<" ", "new", " ", "Date", "(", ")", ".", "getFullYear", "(", ")", " ">>,
   <<"getTotal", "(", ")">>, <<"user", ".", "getName", "(", ")">>,
   <<"formatDate", "(", "x", ")">>,
   <<" ", "count", " ", "+", " ", "1", " ">>,
   <<"label", " ", "|", " ", "uppercase">>}

\* <p>{{expr}}</p>
Interpolated(expr) == Element(<<"p">>, <<>>, <<"{{">> \o expr \o <<"}}">>)

\* *ngIf="cond"
NgIf(cond) == <<"*">> \o Attr(<<"ngIf">>, cond)

\* The conditions of an *ngIf: loading, empty and error states in several
\* spellings, and conditions that hold none of them.
NgIfConditions ==
  {<<"loading">>, <<" ", "isLoading", " ">>, <<"Loading">>,
   <<"data", ";", " ", "else", " ", "loading">>,
   <<"!", "data">>, <<"!", "hasdata">>, <<"!", "records", ".", "length">>,
   <<"!", "items">>, <<"!", "user">>, <<"data">>, <<"items">>,
   <<"items", ".", "length", " ", "=", "=", "=", " ", "0">>,
   <<"items", ".", "length", " ", "=", "=", " ", "0">>,
   <<"items", ".", "length", "=", "=", "=", "0">>,
   <<"items", ".", "length", " ", ">", " ", "0">>,
   <<"user", " ", "!", "=", "=", " ", "null">>,
   <<"error">>, <<"Error">>, <<"haserror">>, <<"user">>, <<"flag">>}

\* The data contexts.
Contexts ==
  {<<>>,
   <<[key |-> "variant", val |-> StrVal(<<"primary">>)],
     [key |-> "label", val |-> StrVal(<<"Save">>)],
     [key |-> "flag", val |-> BoolVal(TRUE)],
     [key |-> "off", val |-> StrVal(<<"false">>)],
     [key |-> "disabled", val |-> BoolVal(TRUE)],
     [key |-> "home", val |-> StrVal(<<"/", "start">>)]>>,
   <<[key |-> "label", val |-> StrVal(<<>>)],
     [key |-> "variant", val |-> StrVal(<<"label">>)]>>,
   <<[key |-> "x", val |-> StrVal(<<"First">>)],
     [key |-> "currentYear", val |-> StrVal(<<"1999">>)],
     [key |-> "user",
      val |-> ObjVal(<<[key |-> "name", val |-> StrVal(<<"Ann">>)],
                       [key |-> "active", val |-> BoolVal(FALSE)],
                       [key |-> "address",
                        val |-> ObjVal(<<[key |-> "city",
                                          val |-> StrVal(<<"Pune">>)]>>)]>>)]>>}

\* ------------------------------------------------------------- the state

VARIABLES
  pc,                  \* where the call is: "call", "loop" (at the while
                       \* test), "rewrite", "done"
  \* processReusableComponents(html, componentsMetadata)
  html,                \* the page markup of the call
  componentsMetadata,  \* the component records of the call
  processedHtml, lastProcessedHtml, iterations,
  allComponentStyles, allComponentScripts, processedComponents,
  calls,               \* history: the instances processComponent expanded
  \* convertAngularTemplateToHTML(template, componentData)
  template, componentData,
  converted,           \* the value returned
  parts,               \* the attribute snippets template was made of
  \* the caller of processReusableComponents
  returned,            \* history: the calls that returned before this one,
                       \* each with its arguments and its result
  \* the preview document of generatePreviewContent
  listening,           \* the DOMContentLoaded callback has run
  path,                \* the event target and, after it, its ancestors
  event,               \* the type of the event dispatched, or ""
  preventDefault,      \* e.preventDefault() was called
  stopPropagation,     \* e.stopPropagation() was called
  \* the conversion of a logic source
  ts, jsContent,
  \* PageProgressProvider and the router
  completedPages,      \* the completion flag of each page
  generatedFiles,      \* appData.generatedFiles
  pathname,            \* location.pathname
  \* the runs in flight: where each one waits
  handleSubmit,        \* ChatPage: "idle", "fetch"
  handleContinue,      \* ElementsPage: "idle", "fetch"
  generateFiles,       \* the mounted DownloadPage: "idle", "post", "poll"
  detached,            \* the same, of a DownloadPage unmounted since
  data,                \* the result the last run of generateFiles ended on
  \* the state of the mounted DownloadPage
  htmlContent, scssContent, tsContent, isLoading,
  generationPending,   \* the effect on generatedFiles is due to run
  isLoadingIntegration, integrationError, serviceCode,
  integration,         \* the integration request: "idle", "post", "poll"
  pollCount,
  integrationDeps      \* the dependencies the integration effect last ran on

inlinerVars ==
  <<html, componentsMetadata, processedHtml, lastProcessedHtml, iterations,
    allComponentStyles, allComponentScripts, processedComponents, calls>>

rewriterVars == <<template, componentData, converted, parts>>

previewVars == <<listening, path, event, preventDefault, stopPropagation>>

scriptVars == <<ts, jsContent>>

contextVars == <<completedPages, generatedFiles, pathname>>

runVars == <<handleSubmit, handleContinue, detached, data>>

downloadVars ==
  <<generateFiles, htmlContent, scssContent, tsContent, isLoading,
    generationPending>>

integrationVars ==
  <<isLoadingIntegration, integrationError, serviceCode, integration,
    pollCount, integrationDeps>>

wizardVars == <<contextVars, runVars, downloadVars, integrationVars>>

\* What neither a call of the inliner nor one of the rewriter touches.
outerVars == <<returned, previewVars, scriptVars, wizardVars>>

vars == <<pc, inlinerVars, rewriterVars, outerVars>>

\* The closure state processComponent works on.
State ==
  [componentsMetadata |-> componentsMetadata, styles |-> allComponentStyles,
   scripts |-> allComponentScripts, processed |-> processedComponents,
   calls |-> calls, raised |-> FALSE]

\* ------------------------------------------- processReusableComponents

\* No call of the rewriter on its own.
NoRewrite ==
  template = <<>> /\ componentData = <<>> /\ converted = <<>> /\ parts = <<>>

\* No preview document and no logic source.
NoPreview ==
  /\ listening = FALSE /\ path = <<>> /\ event = ""
  /\ preventDefault = FALSE /\ stopPropagation = FALSE
  /\ ts = <<>> /\ jsContent = <<>>

\* What the provider holds at the first visit of the application.
NoPages == [chat |-> FALSE, elements |-> FALSE, download |-> FALSE]

\* generatedFiles with no code in it: the reads of html, scss, ts and
\* component_name all give a falsy value, as they do on the initial
\* {html: '', css: '', ts: ''} and on null.
NoFiles == [html |-> "", scss |-> "", ts |-> "", component_name |-> ""]

\* No result of a generation task.
NoData ==
  [status |-> "", html_code |-> "", scss_code |-> "", ts_code |-> "",
   component_name |-> ""]

\* No DownloadPage is mounted.
Unmounted ==
  /\ generateFiles = "idle"
  /\ htmlContent = "" /\ scssContent = "" /\ tsContent = ""
  /\ isLoading = FALSE
  /\ generationPending = FALSE
  /\ isLoadingIntegration = FALSE /\ integrationError = ""
  /\ serviceCode = "" /\ integration = "idle" /\ pollCount = 0
  /\ integrationDeps = <<>>

\* The wizard at the first visit, on the chat page.
NoWizard ==
  /\ completedPages = NoPages
  /\ generatedFiles = NoFiles
  /\ pathname = "/"
  /\ handleSubmit = "idle" /\ handleContinue = "idle"
  /\ detached = "idle" /\ data = NoData
  /\ Unmounted

\* The state at the entry of a call on one of pages with one of
\* registries.
StartWith(pages, registries) ==
  /\ html \in pages
  /\ componentsMetadata \in registries
  /\ pc = "call"
  /\ processedHtml = html
  /\ lastProcessedHtml = <<>>
  /\ iterations = 0
  /\ allComponentStyles = <<>>
  /\ allComponentScripts = <<>>
  /\ processedComponents = {}
  /\ calls = <<>>
  /\ returned = <<>>
  /\ NoRewrite
  /\ NoPreview
  /\ NoWizard

Start(pages) == StartWith(pages, Registries)

Init == Start(Pages(MaxSnippets))

\* if (!componentsMetadata || componentsMetadata.length === 0) return ...
EarlyReturn ==
  /\ pc = "call"
  /\ componentsMetadata = <<>>
  /\ pc' = "done"
  /\ UNCHANGED <<inlinerVars, rewriterVars, outerVars>>

Commit(r) ==
  /\ processedHtml' = r.html
  /\ allComponentStyles' = r.st.styles
  /\ allComponentScripts' = r.st.scripts
  /\ processedComponents' = r.st.processed
  /\ calls' = r.st.calls

\* An exception raised in a replace callback is caught nowhere in the
\* function: the call ends without a result.
Raise ==
  /\ pc' = "raised"
  /\ UNCHANGED <<inlinerVars, rewriterVars, outerVars>>

\* The self-closing replace, then the loop's variables are set up.
SelfClosingPass ==
  /\ pc = "call"
  /\ componentsMetadata # <<>>
  /\ \E r \in {ReplaceSelfClosing([html |-> processedHtml, st |-> State])} :
       IF r.st.raised THEN Raise
       ELSE /\ Commit(r)
            /\ lastProcessedHtml' = <<>>
            /\ iterations' = 0
            /\ pc' = "loop"
            /\ UNCHANGED <<html, componentsMetadata, rewriterVars,
                           outerVars>>

\* The loop test without the comparison of the markup: passes go on after
\* an unchanged one.
LoopConditionCapOnly == iterations < maxIterations

\* The loop test with the cap compared by <= : one pass too many.
LoopConditionInclusive ==
  processedHtml # lastProcessedHtml /\ iterations <= maxIterations

\* while (processedHtml !== lastProcessedHtml && iterations < maxIterations)
LoopCondition ==
  processedHtml # lastProcessedHtml /\ iterations < maxIterations

LoopPass ==
  /\ pc = "loop"
  /\ LoopCondition
  /\ \E r \in {LoopBody([html |-> processedHtml, st |-> State])} :
       IF r.st.raised THEN Raise
       ELSE /\ Commit(r)
            /\ lastProcessedHtml' = processedHtml
            /\ iterations' = iterations + 1
            /\ UNCHANGED <<html, componentsMetadata, pc, rewriterVars,
                           outerVars>>

\* return { html: processedHtml, componentStyles, componentScripts }
Return ==
  /\ pc = "loop"
  /\ ~LoopCondition
  /\ pc' = "done"
  /\ UNCHANGED <<inlinerVars, rewriterVars, outerVars>>

Next == EarlyReturn \/ SelfClosingPass \/ LoopPass \/ Return

Spec == Init /\ [][Next]_vars

\* Instances that carry an attribute or a binding named hasOwnProperty:
\* before another attribute, in a binding, as the last attribute, and on
\* a tag that is not registered.
HasOwnPropertySnippets ==
  {Element(AppButton,
           <<" ">> \o Attr(<<"hasOwnProperty">>, <<"x">>)
             \o <<" ">> \o Attr(<<"label">>, <<"Go">>), <<>>),
   <<SelfClosing(AppIcon,
                 <<" ">> \o Binding(<<"hasOwnProperty">>, <<"'", "x", "'">>)
                   \o <<" ">>)>>,
   Element(AppButton, <<" ", "hasOwnProperty">>, <<"Save">>),
   Element(UnknownWidget,
           <<" ">> \o Attr(<<"hasOwnProperty">>, <<"x">>)
             \o <<" ">> \o Attr(<<"a">>, <<"b">>), <<>>)}

\* The pages of at most one snippet, alone and followed by such an
\* instance.
HasOwnPropertyPages ==
  Pages(1) \cup {Normalise(p \o x) : p \in Pages(1),
                                     x \in HasOwnPropertySnippets}

InitTotal == Start(HasOwnPropertyPages)

\* The calls on these pages.
SpecTotal == InitTotal /\ [][Next]_vars

\* An attribute as it is written on an instantiating tag: a binding
\* [name]="value", a plain name="value" or a bare name.
Written(kind, name, value) == [kind |-> kind, name |-> name, value |-> value]

InstanceAttributes ==
  {Written("binding", <<"label">>, <<"'", "Go", "'">>),
   Written("binding", <<"label">>, <<"title">>),
   Written("plain", <<"label">>, <<"Stop">>),
   Written("plain", <<"variant">>, <<"primary">>),
   Written("bare", <<"disabled">>, <<>>),
   Written("plain", <<"data", "-", "id">>, <<"7">>)}

\* The attributes on one instantiating tag.
MaxInstanceAttributes == 2

RECURSIVE InstanceAttributeLists(_)
InstanceAttributeLists(n) ==
  IF n = 0 THEN {<<>>}
  ELSE InstanceAttributeLists(n - 1)
         \cup {Append(l, a) : l \in {k \in InstanceAttributeLists(n - 1) :
                                       Len(k) = n - 1},
                              a \in InstanceAttributes}

AttributeSource(a) ==
  CASE a.kind = "binding" -> Binding(a.name, a.value)
    [] a.kind = "plain" -> Attr(a.name, a.value)
    [] a.kind = "bare" -> a.name

\* The attribute text of a tag that carries the attributes of l.
InstanceAttributeText(l) ==
  AttributeText([i \in 1..Len(l) |-> AttributeSource(l[i])])

\* The inner text of an instance: none, blank, and text.
InnerTexts == {<<>>, <<" ">>, <<"Save">>, <<" ", "Save", " ">>}

\* <app-button attributes>text</app-button>
InstancePages ==
  {Element(AppButton, InstanceAttributeText(l), t) :
     l \in InstanceAttributeLists(MaxInstanceAttributes), t \in InnerTexts}

InitInstances == Start(InstancePages)

\* The calls on a page of one button instance.
SpecInstances == InitInstances /\ [][Next]_vars

\* Records without id_name and selector: their selector is derived from
\* the name.
BadgeRecord ==
  Component(<<>>, <<>>, <<"AppBadgeComponent">>,
    Element(<<"span">>, <<" ">> \o Attr(<<"class">>, <<"badge">>),
            <<"{{", "label", "}}">>),
    <<".", "badge", " ", "{", "}">>,
    ExportedClass("AppBadgeComponent", <<"label">>))

ListRecord ==
  Component(<<>>, <<>>, <<"ComponentListComponent">>,
    Element(<<"ul">>, <<>>, <<>>), <<>>, <<>>)

HeaderRecord ==
  Component(<<>>, <<>>, <<"Header">>,
    Element(<<"header">>, <<>>, <<"{{", "label", "}}">>), <<>>, <<>>)

DerivedRegistries ==
  {<<>>, <<BadgeRecord>>, <<HeaderRecord, ListRecord>>,
   Library \o <<BadgeRecord, ListRecord, HeaderRecord>>}

\* Instances written with a derived selector: a tag name without hyphen.
DerivedSnippets ==
  {Element(<<"appbadge">>, <<>>, <<"New">>),
   Element(<<"appbadge">>, <<" ">> \o Attr(<<"label">>, <<"Hot">>), <<>>),
   <<SelfClosing(<<"appbadge">>, <<" ">>)>>,
   Element(<<"listcomponent">>, <<>>, <<>>),
   Element(<<"header">>, <<>>, <<"Top">>)}

\* The pages of at most one snippet, alone and followed by such an
\* instance.
DerivedPages ==
  Pages(1) \cup {Normalise(p \o x) : p \in Pages(1), x \in DerivedSnippets}

InitDerived == StartWith(DerivedPages, DerivedRegistries)

\* The calls with records registered under a derived selector.
SpecDerived == InitDerived /\ [][Next]_vars

\* The pages the termination of the call is checked from.
MaxFairSnippets == 1

InitFair == Init /\ html \in Pages(MaxFairSnippets)

\* The call runs to its end: a synchronous function takes its next step.
SpecFair == InitFair /\ [][Next]_vars /\ WF_vars(Next)

\* ----------------------------------------------- successive invocations

\* The calls made one after the other by one caller.
MaxCalls == 3

\* { html: processedHtml, componentStyles, componentScripts }
Result ==
  [html |-> processedHtml, componentStyles |-> allComponentStyles,
   componentScripts |-> allComponentScripts]

\* The arguments of the call and of the calls that returned before it.
Invoked ==
  {<<html, componentsMetadata>>}
    \cup {<<returned[i].html, returned[i].componentsMetadata>> :
            i \in 1..Len(returned)}

\* Arguments of the invocations made in between.
OtherInvocations ==
  {<<Element(AppNote, <<>>, <<"Hi">>), Library>>,
   <<Element(AppButton, <<>>, <<"OK">>) \o <<SelfClosing(AppIcon, <<>>)>>,
     Library>>}

\* The entry of a call with a module-level processedComponents: the set
\* of the call before is still there.
EnterKeepingProcessed(page, registry) ==
  /\ html' = page
  /\ componentsMetadata' = registry
  /\ processedHtml' = page
  /\ allComponentStyles' = <<>>
  /\ allComponentScripts' = <<>>
  /\ processedComponents' = processedComponents
  /\ lastProcessedHtml' = <<>>
  /\ iterations' = 0
  /\ calls' = <<>>

\* The entry of a call: its parameters, and the let and const
\* declarations of the function body, made anew.
Enter(page, registry) ==
  /\ html' = page
  /\ componentsMetadata' = registry
  /\ processedHtml' = page
  /\ allComponentStyles' = <<>>
  /\ allComponentScripts' = <<>>
  /\ processedComponents' = {}
  /\ lastProcessedHtml' = <<>>
  /\ iterations' = 0
  /\ calls' = <<>>

\* The caller keeps the result and calls again: with arguments it has
\* used before, or with others.
Invoke ==
  /\ pc = "done"
  /\ Len(returned) + 1 < MaxCalls
  /\ returned' = Append(returned,
                        [html |-> html,
                         componentsMetadata |-> componentsMetadata,
                         result |-> Result])
  /\ \E a \in Invoked \cup OtherInvocations : Enter(a[1], a[2])
  /\ pc' = "call"
  /\ UNCHANGED <<rewriterVars, previewVars, scriptVars, wizardVars>>

NextInvocations == Next \/ Invoke

InitInvocations == Start(Pages(1))

SpecInvocations == InitInvocations /\ [][NextInvocations]_vars

\* ---------------------------------------- convertAngularTemplateToHTML

\* No call of the inliner.
NoInline ==
  /\ html = <<>> /\ componentsMetadata = <<>>
  /\ processedHtml = <<>> /\ lastProcessedHtml = <<>> /\ iterations = 0
  /\ allComponentStyles = <<>> /\ allComponentScripts = <<>>
  /\ processedComponents = {} /\ calls = <<>>
  /\ returned = <<>>

InitRewrite ==
  /\ pc = "rewrite"
  /\ \/ parts \in AttributeLists(MaxAttributes) /\ template = Tagged(parts)
     \/ parts \in NgForLists /\ template = Repeated(parts)
     \/ /\ parts \in {<<NgIf(c)>> : c \in NgIfConditions}
        /\ template = Tagged(parts)
     \/ /\ parts \in {<<e>> : e \in InterpolationExpressions}
        /\ template = Interpolated(parts[1])
     \/ parts = <<>> /\ template \in OtherTemplates
  /\ componentData \in Contexts
  /\ converted = <<>>
  /\ NoInline
  /\ NoPreview
  /\ NoWizard

\* The call: converted is what it returns.
Rewrite ==
  /\ pc = "rewrite"
  /\ converted' = convertAngularTemplateToHTML(template, componentData)
  /\ pc' = "done"
  /\ UNCHANGED <<inlinerVars, template, componentData, parts, outerVars>>

NextRewrite == Rewrite

SpecRewrite == InitRewrite /\ [][NextRewrite]_vars

\* ------------------------------------------------- the preview document

\* An element of the preview document: its tagName, whether it carries an
\* onclick attribute, and its role attribute ("" when it has none).
Node(tagName, onclick, role) ==
  [tagName |-> tagName, onclick |-> onclick, role |-> role]

\* The elements an event is aimed at, and the elements around them.
TagNames ==
  {"A", "BUTTON", "INPUT", "SELECT", "TEXTAREA", "FORM", "DIV", "SPAN"}

Targets ==
  {Node(t, o, r) : t \in TagNames, o \in BOOLEAN, r \in {"", "button", "tab"}}

Ancestors ==
  {Node("DIV", FALSE, ""), Node("FORM", FALSE, ""), Node("A", FALSE, ""),
   Node("BUTTON", FALSE, ""), Node("LI", TRUE, ""),
   Node("DIV", FALSE, "button")}

\* The depth of the elements around an event target.
MaxAncestors == 1

\* A target followed by its ancestors, the nearest first.
RECURSIVE Paths(_)
Paths(n) ==
  IF n = 0 THEN {<<t>> : t \in Targets}
  ELSE Paths(n - 1)
         \cup {Append(p, a) : p \in {q \in Paths(n - 1) : Len(q) = n},
                              a \in Ancestors}

\* The methods of the event a listener has called.
Calls(prevent, stop) == [preventDefault |-> prevent, stopPropagation |-> stop]

\* target.closest('button'), target.closest('a'): the target itself or one
\* of its ancestors is such an element.
ClosestTag(p, tagName) == \E i \in 1..Len(p) : p[i].tagName = tagName

\* target.closest('[onclick]')
ClosestOnclick(p) == \E i \in 1..Len(p) : p[i].onclick

\* target.closest('[role="button"]')
ClosestRole(p, role) == \E i \in 1..Len(p) : p[i].role = role

\* tagName === 'INPUT' || tagName === 'SELECT' || tagName === 'TEXTAREA'
IsFormControl(target) == target.tagName \in {"INPUT", "SELECT", "TEXTAREA"}

\* The click listener with every test made on the target alone.
ClickListenerTargetOnly(p) ==
  IF p[1].tagName = "A" THEN Calls(TRUE, TRUE)
  ELSE IF IsFormControl(p[1]) THEN Calls(TRUE, TRUE)
  ELSE IF p[1].tagName = "BUTTON" \/ p[1].onclick \/ p[1].role = "button"
  THEN Calls(TRUE, TRUE)
  ELSE Calls(FALSE, FALSE)

\* document.addEventListener('click', function(e) {...}, true)
ClickListener(p) ==
  LET target == p[1]
      isButton == target.tagName = "BUTTON" \/ ClosestTag(p, "BUTTON")
      isLink == target.tagName = "A" \/ ClosestTag(p, "A")
      isInput == IsFormControl(target)
      hasOnclick == target.onclick \/ ClosestOnclick(p)
      isButtonRole == target.role = "button" \/ ClosestRole(p, "button")
  IN  IF isLink THEN Calls(TRUE, TRUE)
      ELSE IF isInput THEN Calls(TRUE, TRUE)
      ELSE IF isButton \/ hasOnclick \/ isButtonRole THEN Calls(TRUE, TRUE)
      ELSE Calls(FALSE, FALSE)

\* document.addEventListener('submit', function(e) {...}, true)
SubmitListener(p) == Calls(TRUE, TRUE)

\* document.addEventListener('change', function(e) {...}, true)
ChangeListener(p) ==
  IF IsFormControl(p[1]) THEN Calls(TRUE, TRUE) ELSE Calls(FALSE, FALSE)

\* The events dispatched in the document; the guard listens to the first
\* three.
EventTypes == {"click", "submit", "change", "keydown"}

\* What the listeners of the document do with an event of a type.
Listeners(type, p) ==
  CASE type = "click" -> ClickListener(p)
    [] type = "submit" -> SubmitListener(p)
    [] type = "change" -> ChangeListener(p)
    [] OTHER -> Calls(FALSE, FALSE)

\* el.removeAttribute('onclick') for every element of the path.
WithoutOnclick(p) == [i \in 1..Len(p) |-> [p[i] EXCEPT !.onclick = FALSE]]

\* The document is being parsed: no listener yet.
InitGuard ==
  /\ pc = "loading"
  /\ listening = FALSE
  /\ path \in Paths(MaxAncestors)
  /\ event = ""
  /\ preventDefault = FALSE
  /\ stopPropagation = FALSE
  /\ ts = <<>> /\ jsContent = <<>>
  /\ NoInline
  /\ NoRewrite
  /\ NoWizard

\* The DOMContentLoaded callback: the three listeners are added in the
\* capture phase and every onclick attribute is removed.
DOMContentLoaded ==
  /\ pc = "loading"
  /\ listening' = TRUE
  /\ path' = WithoutOnclick(path)
  /\ pc' = "ready"
  /\ UNCHANGED <<inlinerVars, rewriterVars, returned, event, preventDefault,
                 stopPropagation, scriptVars, wizardVars>>

\* A script of the page gives an element an onclick attribute after the
\* callback has run.
SetOnclick ==
  /\ pc = "ready"
  /\ \E i \in 1..Len(path) :
       /\ ~path[i].onclick
       /\ path' = [path EXCEPT ![i].onclick = TRUE]
  /\ UNCHANGED <<pc, inlinerVars, rewriterVars, returned, listening, event,
                 preventDefault, stopPropagation, scriptVars, wizardVars>>

\* An event of some type reaches the document on its way to the target:
\* the listeners run if they have been added.
Dispatch ==
  /\ pc \in {"loading", "ready"}
  /\ \E type \in EventTypes :
       \E c \in {IF listening THEN Listeners(type, path)
                 ELSE Calls(FALSE, FALSE)} :
         /\ event' = type
         /\ preventDefault' = c.preventDefault
         /\ stopPropagation' = c.stopPropagation
  /\ pc' = "dispatched"
  /\ UNCHANGED <<inlinerVars, rewriterVars, returned, listening, path,
                 scriptVars, wizardVars>>

NextGuard == DOMContentLoaded \/ SetOnclick \/ Dispatch

SpecGuard == InitGuard /\ [][NextGuard]_vars

\* ------------------------------------------- the logic source of the page

\* The import statements at the head of a logic source: none; one on a
\* line; two of them; one spread over several lines; one without from.
ImportStatements ==
  {<<>>,
   <<"import", " ", "{", " ", "Component", " ", "}", " ", "from", " ",
     "'", "core", "'", ";", "\n">>,
   <<"import", " ", "{", " ", "Component", " ", "}", " ", "from", " ",
     "'", "core", "'", ";", "\n",
     "import", " ", "{", " ", "Api", " ", "}", " ", "from", " ",
     "\"", "api", "\"", "\n">>,
   <<"import", " ", "{", "\n", " ", "Component", ",", "\n", " ", "OnInit",
     "\n", "}", " ", "from", " ", "'", "core", "'", ";", "\n">>,
   <<"import", " ", "'", "polyfills", "'", ";", "\n">>}

\* The annotation block of the class: none; one with flat properties; one
\* with a nested object literal.
Decorators ==
  {<<>>,
   <<"@", "Component", "(", "{", "\n", " ", "selector", ":", " ",
     "'", "app-home", "'", "\n", "}", ")", "\n">>,
   <<"@", "Component", "(", "{", " ", "selector", ":", " ",
     "'", "app-home", "'", ",", " ", "host", ":", " ", "{", " ",
     "'", "role", "'", ":", " ", "'", "main", "'", " ", "}", " ", "}", ")",
     "\n">>}

\* The class declaration up to its name.
ClassHeads ==
  {<<"export", " ", "class", " ", "HomeComponent">>,
   <<"class", " ", "HomeComponent">>}

\* The interfaces an implements clause lists.
MaxInterfaces == 2

RECURSIVE InterfaceLists(_)
InterfaceLists(n) ==
  IF n = 0 THEN {<<>>}
  ELSE InterfaceLists(n - 1)
         \cup {Append(l, i) : l \in {k \in InterfaceLists(n - 1) :
                                       Len(k) = n - 1},
                              i \in {"OnInit", "OnDestroy"}}

\* implements A, B
ImplementsClause(interfaces) ==
  IF interfaces = <<>> THEN <<>>
  ELSE <<" ", "implements", " ">>
         \o Join([i \in 1..Len(interfaces) |-> <<interfaces[i]>>],
                 <<",", " ">>)

\* { title: string = 'Home'; ngOnInit(): void {} }
ClassBody ==
  <<" ", "{", "\n", " ", "title", ":", " ", "string", " ", "=", " ",
    "'", "Home", "'", ";", "\n", " ", "ngOnInit", "(", ")", ":", " ", "void",
    " ", "{", "}", "\n", "}">>

LogicSources ==
  {i \o d \o h \o ImplementsClause(l) \o ClassBody :
     i \in ImportStatements, d \in Decorators, h \in ClassHeads,
     l \in InterfaceLists(MaxInterfaces)}

InitScript ==
  /\ pc = "convert"
  /\ ts \in LogicSources
  /\ jsContent = <<>>
  /\ listening = FALSE /\ path = <<>> /\ event = ""
  /\ preventDefault = FALSE /\ stopPropagation = FALSE
  /\ NoInline
  /\ NoRewrite
  /\ NoWizard

\* let jsContent = ts.replace(...)...replace(...)
ConvertScript ==
  /\ pc = "convert"
  /\ jsContent' = Neutralise(ts)
  /\ pc' = "done"
  /\ UNCHANGED <<inlinerVars, rewriterVars, returned, previewVars, ts,
                 wizardVars>>

NextScript == ConvertScript

SpecScript == InitScript /\ [][NextScript]_vars

\* ------------------------------------------------------------ the wizard

\* What the calls above and the preview leave alone.
programVars ==
  <<pc, inlinerVars, rewriterVars, returned, previewVars, scriptVars>>

\* The routes of the application.
Pathnames == {"/", "/elements", "/download"}

\* The pageName each route is protected with.
PageName(route) ==
  CASE route = "/elements" -> "elements"
    [] route = "/download" -> "download"
    [] OTHER -> "chat"

isPageAccessible(completed, page) ==
  CASE page = "chat" -> TRUE
    [] page = "elements" -> completed.chat
    [] page = "download" -> completed.chat /\ completed.elements
    [] OTHER -> FALSE

\* The route shown when route is asked for: a page that is not accessible
\* is replaced by the chat page.
ProtectedRoute(completed, route) ==
  IF route = "/" \/ isPageAccessible(completed, PageName(route))
  THEN route ELSE "/"

markPageComplete(completed, page) == [completed EXCEPT ![page] = TRUE]

\* component_name.replace('Component', '') || 'MyComponent', on the names
\* of the model.
rawComponentName(files) ==
  CASE files.component_name = "UserProfileComponent" -> "UserProfile"
    [] files.component_name = "OrderListComponent" -> "OrderList"
    [] OTHER -> "MyComponent"

\* The results a generation task completes with: the three parts; the
\* same under another name; the markup alone; no code at all; a result
\* that is no success.
GenerationResults ==
  {[status |-> "success", html_code |-> "code", scss_code |-> "code",
    ts_code |-> "code", component_name |-> "UserProfileComponent"],
   [status |-> "success", html_code |-> "code", scss_code |-> "code",
    ts_code |-> "code", component_name |-> "OrderListComponent"],
   [status |-> "success", html_code |-> "code", scss_code |-> "",
    ts_code |-> "", component_name |-> "UserProfileComponent"],
   [status |-> "success", html_code |-> "", scss_code |-> "",
    ts_code |-> "", component_name |-> "UserProfileComponent"],
   [status |-> "error", html_code |-> "code", scss_code |-> "code",
    ts_code |-> "code", component_name |-> "UserProfileComponent"]}

\* What the user leaves in an editor.
Edited == {"", "edited"}

\* The dependencies of the integration effect.
CurrentDeps ==
  <<htmlContent, tsContent, rawComponentName(generatedFiles),
    isLoadingIntegration, serviceCode>>

\* The effect on generatedFiles has run: an effect that is due runs
\* before the next update is handled.
Rendered == ~generationPending

\* Every effect of the last render has run.
Settled ==
  /\ Rendered
  /\ pathname = "/download" => integrationDeps = CurrentDeps

\* A DownloadPage is mounted on files.
Mount(files) ==
  /\ generateFiles' = "idle"
  /\ htmlContent' = files.html
  /\ scssContent' = files.scss
  /\ tsContent' = files.ts
  /\ isLoading' = FALSE
  /\ generationPending' = TRUE
  /\ isLoadingIntegration' = FALSE
  /\ integrationError' = ""
  /\ serviceCode' = ""
  /\ integration' = "idle"
  /\ pollCount' = 0
  /\ integrationDeps' = <<>>
  /\ detached' = detached

\* The DownloadPage is unmounted: its run of generateFiles goes on, its
\* integration request has no state left to set. The model follows one
\* run that has lost its page.
Unmount ==
  /\ generateFiles = "idle" \/ detached = "idle"
  /\ detached' = IF generateFiles # "idle" THEN generateFiles ELSE detached
  /\ generateFiles' = "idle"
  /\ htmlContent' = "" /\ scssContent' = "" /\ tsContent' = ""
  /\ isLoading' = FALSE
  /\ generationPending' = FALSE
  /\ isLoadingIntegration' = FALSE
  /\ integrationError' = ""
  /\ serviceCode' = ""
  /\ integration' = "idle"
  /\ pollCount' = 0
  /\ integrationDeps' = <<>>

\* The router shows route, with files in the provider; changed says that
\* generatedFiles is a new object.
Show(route, files, changed) ==
  /\ pathname' = route
  /\ IF route = "/download" /\ pathname # "/download" THEN Mount(files)
     ELSE IF route # "/download" /\ pathname = "/download" THEN Unmount
     ELSE /\ generationPending' =
               (generationPending \/ (changed /\ pathname = "/download"))
          /\ UNCHANGED <<detached, generateFiles, htmlContent, scssContent,
                         tsContent, isLoading, integrationVars>>

\* The user follows a link or types an address.
Navigate ==
  /\ Rendered
  /\ \E route \in Pathnames \ {pathname} :
       Show(ProtectedRoute(completedPages, route), generatedFiles, FALSE)
  /\ UNCHANGED <<completedPages, generatedFiles, handleSubmit,
                 handleContinue, data, programVars>>

\* ChatPage: the form is submitted and the upload is awaited.
HandleSubmit ==
  /\ Rendered
  /\ pathname = "/"
  /\ handleSubmit = "idle"
  /\ handleSubmit' = "fetch"
  /\ UNCHANGED <<contextVars, handleContinue, detached, data, downloadVars,
                 integrationVars, programVars>>

\* The upload answers: on success chat is marked and the elements page
\* is shown.
SubmitResponse ==
  /\ Rendered
  /\ handleSubmit = "fetch"
  /\ handleSubmit' = "idle"
  /\ \E ok \in BOOLEAN :
       IF ok
       THEN /\ completedPages' = markPageComplete(completedPages, "chat")
            /\ Show("/elements", generatedFiles, FALSE)
       ELSE UNCHANGED <<completedPages, pathname, detached, downloadVars,
                        integrationVars>>
  /\ UNCHANGED <<generatedFiles, handleContinue, data, programVars>>

\* The end of handleContinue: the generated files are cleared, elements
\* is marked and the download page is asked for.
Continued ==
  /\ generatedFiles' = NoFiles
  /\ completedPages' = markPageComplete(completedPages, "elements")
  /\ Show(ProtectedRoute(markPageComplete(completedPages, "elements"),
                         "/download"), NoFiles, TRUE)

\* ElementsPage: Continue is pressed; with components or APIs to update
\* a request is awaited, without them the handler ends at once.
HandleContinue ==
  /\ Rendered
  /\ pathname = "/elements"
  /\ handleContinue = "idle"
  /\ \E awaits \in BOOLEAN :
       IF awaits
       THEN /\ handleContinue' = "fetch"
            /\ UNCHANGED <<contextVars, detached, downloadVars,
                           integrationVars>>
       ELSE /\ handleContinue' = "idle"
            /\ Continued
  /\ UNCHANGED <<handleSubmit, data, programVars>>

\* The metadata update answers.
ContinueResponse ==
  /\ Rendered
  /\ handleContinue = "fetch"
  /\ handleContinue' = "idle"
  /\ \E ok \in BOOLEAN :
       IF ok THEN Continued
       ELSE UNCHANGED <<contextVars, detached, downloadVars,
                        integrationVars>>
  /\ UNCHANGED <<handleSubmit, data, programVars>>

\* resetProgress(), from whatever page calls it.
Reset ==
  /\ Rendered
  /\ completedPages' = NoPages
  /\ generatedFiles' = NoFiles
  /\ Show("/", NoFiles, TRUE)
  /\ UNCHANGED <<handleSubmit, handleContinue, data, programVars>>

\* html && scss && ts
AllCode(files) == files.html # "" /\ files.scss # "" /\ files.ts # ""

\* The effect of DownloadPage on completedPages and generatedFiles.
GenerationEffect ==
  /\ pathname = "/download"
  /\ generationPending
  /\ generationPending' = FALSE
  /\ IF ~completedPages.chat \/ ~completedPages.elements
     THEN /\ htmlContent' = "" /\ scssContent' = "" /\ tsContent' = ""
          /\ UNCHANGED <<generateFiles, isLoading>>
     ELSE IF AllCode(generatedFiles)
     THEN /\ htmlContent' = generatedFiles.html
          /\ scssContent' = generatedFiles.scss
          /\ tsContent' = generatedFiles.ts
          /\ isLoading' = FALSE
          /\ UNCHANGED generateFiles
     ELSE IF isLoading
     THEN UNCHANGED <<generateFiles, htmlContent, scssContent, tsContent,
                      isLoading>>
     ELSE /\ generateFiles = "idle"
          /\ generateFiles' = "post"
          /\ isLoading' = TRUE
          /\ UNCHANGED <<htmlContent, scssContent, tsContent>>
  /\ UNCHANGED <<contextVars, runVars, integrationVars, programVars>>

\* What generateFiles stores of the result d.
Stored(d) ==
  [html |-> d.html_code, scss |-> d.scss_code, ts |-> d.ts_code,
   component_name |-> d.component_name]

\* Any result passes.
HasCodeUnchecked(d) == TRUE

\* The result d holds a part that is not empty.
HasCode(d) == d.html_code # "" \/ d.scss_code # "" \/ d.ts_code # ""

\* A run of generateFiles ends in the catch block, d being the result it
\* got, if any; own says that its page is still mounted.
Thrown(own, d) ==
  /\ data' = d
  /\ IF own
     THEN generateFiles' = "idle" /\ isLoading' = FALSE
          /\ detached' = detached
     ELSE detached' = "idle" /\ UNCHANGED <<generateFiles, isLoading>>
  /\ UNCHANGED <<contextVars, htmlContent, scssContent, tsContent,
                 generationPending>>

\* A run of generateFiles ends with the result d stored and the download
\* page marked. Whether the effect on the new generatedFiles runs before
\* or after isLoading is cleared depends on how the build batches the
\* updates; it matters when a part of the code is missing.
Succeeded(own, d) ==
  /\ data' = d
  /\ generatedFiles' = Stored(d)
  /\ completedPages' = markPageComplete(completedPages, "download")
  /\ pathname' = pathname
  /\ IF own
     THEN /\ generateFiles' = "idle" /\ isLoading' = FALSE
          /\ htmlContent' = d.html_code
          /\ scssContent' = d.scss_code
          /\ tsContent' = d.ts_code
          /\ detached' = detached
          /\ generationPending' \in
               IF AllCode(Stored(d)) THEN {TRUE} ELSE BOOLEAN
     ELSE /\ detached' = "idle"
          /\ generationPending' = (pathname = "/download")
          /\ UNCHANGED <<generateFiles, isLoading, htmlContent,
                         scssContent, tsContent>>

\* Where the run waits: the one of the mounted page or the other.
Stage(own) == IF own THEN generateFiles ELSE detached

\* The request that starts the task answers.
GenerationStarted ==
  /\ Rendered
  /\ \E own \in BOOLEAN :
       /\ Stage(own) = "post"
       /\ \E ok \in BOOLEAN :
            IF ok
            THEN /\ IF own
                    THEN generateFiles' = "poll" /\ detached' = detached
                    ELSE detached' = "poll" /\ generateFiles' = generateFiles
                 /\ UNCHANGED <<contextVars, data, htmlContent, scssContent,
                                tsContent, isLoading, generationPending>>
            ELSE Thrown(own, NoData)
  /\ UNCHANGED <<handleSubmit, handleContinue, integrationVars, programVars>>

\* A poll of the task answers with an end: the request failed, the task
\* failed, or the task completed with a result.
GenerationPolled ==
  /\ Rendered
  /\ \E own \in BOOLEAN :
       /\ Stage(own) = "poll"
       /\ \/ Thrown(own, NoData)
          \/ \E d \in GenerationResults :
               IF d.status = "success" /\ HasCode(d)
               THEN Succeeded(own, d)
               ELSE Thrown(own, d)
  /\ UNCHANGED <<handleSubmit, handleContinue, integrationVars, programVars>>

\* downloadFile(content, ...) with some content, on a page not marked yet.
DownloadFile ==
  /\ Settled
  /\ pathname = "/download"
  /\ ~isLoading
  /\ \E content \in {htmlContent, scssContent, tsContent, serviceCode} :
       content # ""
  /\ ~completedPages.download
  /\ completedPages' = markPageComplete(completedPages, "download")
  /\ UNCHANGED <<generatedFiles, pathname, runVars, downloadVars,
                 integrationVars, programVars>>

\* handleSave: the editors' contents become generatedFiles.
HandleSave ==
  /\ Rendered
  /\ pathname = "/download"
  /\ ~isLoading
  /\ generatedFiles' =
       [html |-> htmlContent, scss |-> scssContent, ts |-> tsContent,
        component_name |-> generatedFiles.component_name]
  /\ generationPending' = TRUE
  /\ UNCHANGED <<completedPages, pathname, runVars, generateFiles,
                 htmlContent, scssContent, tsContent, isLoading,
                 integrationVars, programVars>>

\* The user changes the contents of the markup editor, of the logic
\* editor or of the service editor.
Edit ==
  /\ Settled
  /\ pathname = "/download"
  /\ ~isLoading
  /\ \E value \in Edited :
       \/ /\ value # htmlContent
          /\ htmlContent' = value
          /\ UNCHANGED <<tsContent, serviceCode>>
       \/ /\ value # tsContent
          /\ tsContent' = value
          /\ UNCHANGED <<htmlContent, serviceCode>>
       \/ /\ serviceCode # "" /\ ~isLoadingIntegration
          /\ integrationError = ""
          /\ value # serviceCode
          /\ serviceCode' = value
          /\ UNCHANGED <<htmlContent, tsContent>>
  /\ UNCHANGED <<contextVars, runVars, generateFiles, scssContent, isLoading,
                 generationPending, isLoadingIntegration, integrationError,
                 integration, pollCount, integrationDeps, programVars>>

maxPolls == 30

\* The effect of DownloadPage on htmlContent, tsContent, rawComponentName,
\* isLoadingIntegration and serviceCode; it runs after the effect on
\* generatedFiles.
IntegrationEffect ==
  /\ pathname = "/download"
  /\ ~generationPending
  /\ integrationDeps # CurrentDeps
  /\ integrationDeps' = CurrentDeps
  /\ IF /\ htmlContent # "" /\ tsContent # ""
        /\ rawComponentName(generatedFiles) # ""
        /\ ~isLoadingIntegration /\ serviceCode = ""
     THEN /\ isLoadingIntegration' = TRUE
          /\ integrationError' = ""
          /\ integration' = "post"
     ELSE UNCHANGED <<isLoadingIntegration, integrationError, integration>>
  /\ UNCHANGED <<contextVars, runVars, downloadVars, serviceCode, pollCount,
                 programVars>>

\* The attempt ends with message shown.
IntegrationFailed(message) ==
  /\ integrationError' = message
  /\ isLoadingIntegration' = FALSE
  /\ integration' = "idle"
  /\ UNCHANGED <<serviceCode, pollCount>>

\* The attempt ends with the code of the service, which may be empty.
IntegrationDone ==
  /\ \E code \in {"", "service"} : serviceCode' = code
  /\ isLoadingIntegration' = FALSE
  /\ integration' = "idle"
  /\ UNCHANGED <<integrationError, pollCount>>

\* The integration request answers.
IntegrationResponse ==
  /\ Settled
  /\ integration = "post"
  /\ \/ IntegrationFailed("Server error")
     \/ IntegrationFailed("Failed to generate backend integration")
     \/ IntegrationDone
     \/ /\ integration' = "poll"
        /\ pollCount' = 0
        /\ UNCHANGED <<isLoadingIntegration, integrationError, serviceCode>>
  /\ UNCHANGED <<contextVars, runVars, downloadVars, integrationDeps,
                 programVars>>

\* A poll of the integration task answers; after maxPolls polls without
\* an end the attempt times out.
IntegrationPolled ==
  /\ Settled
  /\ integration = "poll"
  /\ \/ IntegrationDone
     \/ IntegrationFailed("Failed to generate backend integration")
     \/ IF pollCount + 1 < maxPolls
        THEN /\ pollCount' = pollCount + 1
             /\ UNCHANGED <<isLoadingIntegration, integrationError,
                            serviceCode, integration>>
        ELSE /\ integrationError' = "Backend integration generation timed out"
             /\ isLoadingIntegration' = FALSE
             /\ integration' = "idle"
             /\ pollCount' = maxPolls
             /\ UNCHANGED serviceCode
  /\ UNCHANGED <<contextVars, runVars, downloadVars, integrationDeps,
                 programVars>>

InitWizard ==
  /\ pc = "wizard"
  /\ NoWizard
  /\ NoInline
  /\ NoRewrite
  /\ listening = FALSE /\ path = <<>> /\ event = ""
  /\ preventDefault = FALSE /\ stopPropagation = FALSE
  /\ ts = <<>> /\ jsContent = <<>>

NextWizard ==
  \/ Navigate \/ HandleSubmit \/ SubmitResponse
  \/ HandleContinue \/ ContinueResponse \/ Reset
  \/ GenerationEffect \/ GenerationStarted \/ GenerationPolled
  \/ HandleSave

\* The pages of the wizard behind their route guards, up to the files
\* of the page; what the user does with the files follows below.
SpecWizard == InitWizard /\ [][NextWizard]_vars

\* The download page as handleContinue has just shown it.
InitIntegration ==
  /\ pc = "wizard"
  /\ completedPages = [chat |-> TRUE, elements |-> TRUE, download |-> FALSE]
  /\ generatedFiles = NoFiles
  /\ pathname = "/download"
  /\ handleSubmit = "idle" /\ handleContinue = "idle"
  /\ detached = "idle" /\ data = NoData
  /\ generateFiles = "idle"
  /\ htmlContent = "" /\ scssContent = "" /\ tsContent = ""
  /\ isLoading = FALSE
  /\ generationPending = TRUE
  /\ isLoadingIntegration = FALSE /\ integrationError = ""
  /\ serviceCode = "" /\ integration = "idle" /\ pollCount = 0
  /\ integrationDeps = <<>>
  /\ NoInline
  /\ NoRewrite
  /\ listening = FALSE /\ path = <<>> /\ event = ""
  /\ preventDefault = FALSE /\ stopPropagation = FALSE
  /\ ts = <<>> /\ jsContent = <<>>

NextIntegration ==
  \/ GenerationEffect \/ GenerationStarted \/ GenerationPolled \/ Edit
  \/ DownloadFile
  \/ IntegrationEffect \/ IntegrationResponse \/ IntegrationPolled

\* The download page from the generation of the files to their edition,
\* their download and the backend integration code.
SpecIntegration == InitIntegration /\ [][NextIntegration]_vars

\* ============================================================ properties

\* The number of places where the atoms of needle occur in hay.
Count(hay, needle) ==
  Cardinality({i \in 1..Len(hay) : HasPrefixAt(hay, i, needle)})

\* The selectors processComponent has expanded an instance of, and the
\* number of instances of one of them.
Instantiated == {calls[i].selector : i \in 1..Len(calls)}

Instances(selector) ==
  Cardinality({i \in 1..Len(calls) : calls[i].selector = selector})

\* The call has returned and its last pass changed nothing: the cap was
\* not what stopped the loop.
ReturnedAtFixpoint == pc = "done" /\ processedHtml = lastProcessedHtml

\* ---- C1
\* C1: whatever the page and the registry (a component that holds its own
\* tag, two components that hold each other's), the call terminates, and
\* the paired-tag loop makes at most maxIterations (20) passes.
C1_TerminatesWithinCap ==
  /\ [](iterations <= maxIterations)
  /\ <>(pc = "done")

\* The call has returned after the loop used all 20 passes and the markup
\* was still changing.
C1_CapReached ==
  /\ pc = "done"
  /\ iterations = maxIterations
  /\ processedHtml # lastProcessedHtml

\* ---- C2
\* `/* Styles for ${selector} */` and `/* Script for ${selector} */`
StyleHeader(selector) ==
  <<"/", "*", " ", "Styles", " ", "for", " ">> \o selector \o <<" ", "*", "/">>

ScriptHeader(selector) ==
  <<"/", "*", " ", "Script", " ", "for", " ">> \o selector \o <<" ", "*", "/">>

\* The selectors of the instances expanded so far, each once, in the
\* order of their first instance.
RECURSIVE Encountered(_)
Encountered(cs) ==
  IF cs = <<>> THEN <<>>
  ELSE LET before == Encountered(SubSeq(cs, 1, Len(cs) - 1))
       IN  IF InSeq(cs[Len(cs)].selector, before) THEN before
           ELSE Append(before, cs[Len(cs)].selector)

\* The blocks of the selectors of order, one after the other.
RECURSIVE StylesOf(_)
StylesOf(order) ==
  IF order = <<>> THEN <<>>
  ELSE (IF ComponentMap(componentsMetadata, Head(order)).scss_code # <<>>
        THEN StyleBlock(Head(order),
                        ComponentMap(componentsMetadata, Head(order)).scss_code)
        ELSE <<>>) \o StylesOf(Tail(order))

RECURSIVE ScriptsOf(_)
ScriptsOf(order) ==
  IF order = <<>> THEN <<>>
  ELSE (IF HasExportClass(ComponentMap(componentsMetadata, Head(order)).ts_code)
        THEN ScriptBlock(Head(order),
               Neutralise(ComponentMap(componentsMetadata, Head(order)).ts_code))
        ELSE <<>>) \o ScriptsOf(Tail(order))

\* C2 (amended): however many instances of a registered selector have
\* been expanded, in whatever forms and passes, the aggregated styles hold
\* exactly one block for it when its record has a style sheet and none
\* otherwise, the aggregated scripts hold exactly one block with its
\* neutralized logic source when that source declares an exported class
\* and none otherwise, and the blocks stand in the order in which the
\* selectors were first encountered.
C2_OneBlockPerSelector ==
  /\ \A selector \in Instantiated :
       /\ Count(allComponentStyles, StyleHeader(selector))
            = IF ComponentMap(componentsMetadata, selector).scss_code # <<>>
              THEN 1 ELSE 0
       /\ Count(allComponentScripts, ScriptHeader(selector))
            = IF HasExportClass(ComponentMap(componentsMetadata, selector).ts_code)
              THEN 1 ELSE 0
  /\ allComponentStyles = StylesOf(Encountered(calls))
  /\ allComponentScripts = ScriptsOf(Encountered(calls))

\* A selector with a style sheet and an exported class was instantiated
\* twice, and the call has returned.
C2_TwoInstances ==
  /\ pc = "done"
  /\ \E selector \in Instantiated :
       /\ Instances(selector) >= 2
       /\ Count(allComponentStyles, StyleHeader(selector)) = 1
       /\ Count(allComponentScripts, ScriptHeader(selector)) = 1

\* C2 as stated: every instantiated selector that has a style sheet has
\* exactly one copy of it in the aggregated styles, and every one that has
\* a logic source has exactly one copy of its neutralized form in the
\* aggregated scripts.
C2_ExactlyOneCopy ==
  pc = "done" =>
    \A selector \in Instantiated :
      LET component == ComponentMap(componentsMetadata, selector)
      IN  /\ component.scss_code # <<>> =>
               Count(allComponentStyles, component.scss_code) = 1
          /\ component.ts_code # <<>> =>
               Count(allComponentScripts, Neutralise(component.ts_code)) = 1

\* ---- C3
Unregistered(tag) ==
  IsSelector(tag) /\ ~InComponentMap(componentsMetadata, tag)

\* The instances of unregistered selectors in m, in order, each as the
\* tokens it is written with: one self-closing tag, or the opening tag,
\* the text if any and the closing tag.
RECURSIVE UnregisteredInstances(_)
UnregisteredInstances(m) ==
  IF m = <<>> THEN <<>>
  ELSE LET n == IF Head(m).k = "self" THEN 1 ELSE PairedMatch(m)
       IN  IF n > 0 /\ Unregistered(Head(m).tag)
           THEN <<SubSeq(m, 1, n)>>
                  \o UnregisteredInstances(SubSeq(m, n + 1, Len(m)))
           ELSE UnregisteredInstances(Tail(m))

\* C3: the instances of selectors that are not in the registry stay as
\* they were written (name, attributes, inner text, closing tag),
\* processComponent expands none of them, and nothing in the aggregated
\* styles or scripts names them.
C3_UnregisteredUnchanged ==
  /\ UnregisteredInstances(processedHtml) = UnregisteredInstances(html)
  /\ \A selector \in Instantiated : ~Unregistered(selector)
  /\ \A i \in 1..Len(html) :
       Unregistered(html[i].tag) =>
         /\ Count(allComponentStyles, html[i].tag) = 0
         /\ Count(allComponentScripts, html[i].tag) = 0

\* A call with a registry has returned, it expanded an instance, and the
\* page held an instance of an unregistered selector.
C3_UnregisteredBesideRegistered ==
  /\ pc = "done"
  /\ componentsMetadata # <<>>
  /\ calls # <<>>
  /\ UnregisteredInstances(html) # <<>>
  /\ UnregisteredInstances(processedHtml) = UnregisteredInstances(html)

\* ---- C4
\* m holds a tag the three replaces expand: self-closing, empty paired or
\* paired with text only, of a registered selector.
Expandable(m) ==
  \E i \in 1..Len(m) :
    /\ InComponentMap(componentsMetadata, m[i].tag)
    /\ \/ m[i].k = "self" /\ IsSelector(m[i].tag)
       \/ PairedMatch(SubSeq(m, i, Len(m))) > 0

\* C4: when the call returns and the cap was not what stopped the loop,
\* the returned markup holds no expandable tag of a registered selector.
C4_NothingExpandableLeft ==
  ReturnedAtFixpoint => ~Expandable(processedHtml)

\* ---- C5
\* At i, m holds an instance of one registered selector that encloses a
\* text-only or empty instance of another.
Encloses(m, i) ==
  /\ m[i].k = "open" /\ InComponentMap(componentsMetadata, m[i].tag)
  /\ i + 1 <= Len(m) /\ InComponentMap(componentsMetadata, m[i + 1].tag)
  /\ PairedMatch(SubSeq(m, i + 1, Len(m))) > 0
  /\ LET j == i + 1 + PairedMatch(SubSeq(m, i + 1, Len(m)))
     IN  j <= Len(m) /\ m[j].k = "close" /\ m[j].tag = m[i].tag

\* C5: when an instance of a registered component encloses one of
\* another and the cap is not reached, both have been expanded when the
\* call returns, and no opening tag of the enclosing selector is left.
C5_BothInstancesReplaced ==
  ReturnedAtFixpoint =>
    \A i \in 1..Len(html) :
      Encloses(html, i) =>
        /\ html[i].tag \in Instantiated
        /\ html[i + 1].tag \in Instantiated
        /\ \A j \in 1..Len(processedHtml) :
             ~(processedHtml[j].k = "open" /\ processedHtml[j].tag = html[i].tag)

\* ---- C6
\* The strings of a markup: the attribute text of its tags and its text
\* runs.
Texts(m) ==
  {m[i].attrs : i \in 1..Len(m)} \cup {m[i].s : i \in 1..Len(m)}

\* s holds no interpolation, no property or class binding, no event
\* binding, no structural directive and no router-link syntax.
Plain(s) ==
  /\ ~Includes(s, "{{")
  /\ \A i \in 1..Len(s) :
       /\ ~HasPrefixAt(s, i, <<"]", "=">>)
       /\ ~HasPrefixAt(s, i, <<")", "=">>)
       /\ ~(s[i] = "*" /\ i < Len(s) /\ s[i + 1] \in {"ngIf", "ngFor"})
       /\ s[i] \notin {"routerLink", "routerLinkActive"}

IsPlain(m) == \A s \in Texts(m) : Plain(s)

\* C6: for a markup without interpolation, binding, event binding,
\* structural directive and router-link syntax, and for every context,
\* convertAngularTemplateToHTML returns the markup as it was given.
C6_PlainMarkupUnchanged ==
  pc = "done" /\ IsPlain(template) => converted = template

\* A tag with a plain attribute, rewritten under a context that has keys.
C6_PlainTagRewritten ==
  /\ pc = "done"
  /\ parts # <<>> /\ IsPlain(template)
  /\ componentData # <<>>
  /\ converted = template

\* ---- C7
\* C7: [class]="'literal' + key" with key in the context is rewritten to
\* class="literalvalue": the literal, then the value of the key, nothing
\* in between.
C7_LiteralThenValue ==
  pc = "done" =>
    \A l \in ClassLiterals, k \in ClassKeys :
      (parts = <<Binding(<<"class">>, Concatenation(l, k))>>
         /\ Has(componentData, k)) =>
        converted =
          Element(<<"div">>,
                  <<" ">> \o Attr(<<"class">>,
                                  l \o StringOf(Get(componentData, k))),
                  <<"Hello">>)

\* ---- C8
\* The boolean attribute names of the claim, and those whose true value
\* is written as the bare name.
ClaimedBooleanNames ==
  {<<"readonly">>, <<"required">>, <<"checked">>, <<"selected">>,
   <<"hidden">>}

BareWhenTrue == ClaimedBooleanNames \cup {<<"disabled">>}

\* C8 as stated: the boolean true on one of the five names gives the bare
\* name, the boolean false gives nothing, and every other name gives
\* name="value" with the resolved value.
C8_RenderedAsStated ==
  pc = "done" =>
    \A n \in BindingNames, e \in BindingExpressions :
      parts = <<Binding(n, e)>> =>
        LET v == ResolveProperty(n, e, componentData)
        IN  /\ (v = BoolVal(TRUE) /\ ToLowerCase(n) \in ClaimedBooleanNames) =>
                 converted = Element(<<"div">>, <<" ">> \o n, <<"Hello">>)
            /\ v = BoolVal(FALSE) =>
                 converted = Element(<<"div">>, <<" ">>, <<"Hello">>)
            /\ (ToLowerCase(n) \notin ClaimedBooleanNames /\ v # BoolVal(FALSE)) =>
                 converted = Element(<<"div">>,
                                     <<" ">> \o Attr(n, StringOf(v)),
                                     <<"Hello">>)

\* C8 (amended): a binding [name]="expr", name other than class and
\* disabled, is replaced according to the text of its resolved value:
\* "true" gives the bare name when the name in lower case is disabled,
\* readonly, required, checked, selected or hidden, and name="true"
\* otherwise; "false" gives nothing, whatever the name; every other
\* value gives name="value".
C8_RenderedByValue ==
  pc = "done" =>
    \A n \in BindingNames, e \in BindingExpressions :
      parts = <<Binding(n, e)>> =>
        LET text == StringOf(ResolveProperty(n, e, componentData))
        IN  converted =
              Element(<<"div">>,
                      <<" ">> \o (IF text = <<"true">>
                                  THEN IF ToLowerCase(n) \in BareWhenTrue
                                       THEN n ELSE Attr(n, <<"true">>)
                                  ELSE IF text = <<"false">> THEN <<>>
                                  ELSE Attr(n, text)),
                      <<"Hello">>)

\* [checked]="flag" with flag true in the context was rewritten to the
\* bare name.
C8_BareNameRendered ==
  /\ pc = "done"
  /\ parts = <<Binding(<<"checked">>, <<"flag">>)>>
  /\ Has(componentData, "flag") /\ Get(componentData, "flag") = BoolVal(TRUE)
  /\ converted = Element(<<"div">>, <<" ", "checked">>, <<"Hello">>)

\* ---- C9
\* The attribute text of a tag that carries the snippets of l, with
\* nothing where a [disabled] binding stood.
RECURSIVE WithoutDisabledBindings(_)
WithoutDisabledBindings(l) ==
  IF l = <<>> THEN <<>>
  ELSE <<" ">> \o (IF Head(l) \in DisabledBindingSnippets THEN <<>> ELSE Head(l))
         \o WithoutDisabledBindings(Tail(l))

\* C9: whatever the expression and the context, a [disabled]="expr"
\* binding leaves nothing behind: the result is that of the same tag
\* written without the binding, and a tag whose only attributes were such
\* bindings keeps nothing but the white space between them.
C9_DisabledBindingDropped ==
  pc = "done" /\ (\E i \in 1..Len(parts) : parts[i] \in DisabledBindingSnippets) =>
    /\ converted =
         convertAngularTemplateToHTML(
           Element(<<"div">>, WithoutDisabledBindings(parts), <<"Hello">>),
           componentData)
    /\ (\A i \in 1..Len(parts) : parts[i] \in DisabledBindingSnippets) =>
         converted = Element(<<"div">>, [i \in 1..Len(parts) |-> " "],
                             <<"Hello">>)

\* [disabled]="true" was rewritten under a context in which disabled is
\* true as well.
C9_DisabledTrueDropped ==
  /\ pc = "done"
  /\ parts = <<Binding(<<"disabled">>, <<"true">>)>>
  /\ Has(componentData, "disabled")
  /\ converted = Element(<<"div">>, <<" ">>, <<"Hello">>)

\* ---- C10
\* The inputs of a component that its template interpolates, by their
\* place in the declaration.
InterpolatedInputs(component) ==
  {i \in 1..Len(Inputs(component.ts_code)) :
     InSeq(Inputs(component.ts_code)[i], Interpolations(component.html_code))}

\* The field of the claim: the first declared input that has a
\* conventional name and is interpolated, else the first declared input
\* that is interpolated, else the first declared input, else "label".
ClaimedField(component) ==
  LET inputs == Inputs(component.ts_code)
      conventional ==
        {i \in InterpolatedInputs(component) :
           InSeq(inputs[i], contentPropertyNames)}
  IN  IF inputs = <<>> THEN "label"
      ELSE IF conventional # {} THEN inputs[Least(conventional)]
      ELSE IF InterpolatedInputs(component) # {}
        THEN inputs[Least(InterpolatedInputs(component))]
      ELSE inputs[1]

\* The field of the amended claim: the conventional names are tried in
\* their own order, and a component without a template gets "label".
PreferredField(component) ==
  LET inputs == Inputs(component.ts_code)
      preferred ==
        {i \in 1..Len(contentPropertyNames) :
           \E j \in InterpolatedInputs(component) :
             inputs[j] = contentPropertyNames[i]}
  IN  IF inputs = <<>> \/ component.html_code = <<>> THEN "label"
      ELSE IF preferred # {} THEN contentPropertyNames[Least(preferred)]
      ELSE IF InterpolatedInputs(component) # {}
        THEN inputs[Least(InterpolatedInputs(component))]
      ELSE inputs[1]

\* C10 as stated: the inner text of every instance expanded went to the
\* field of the claim.
C10_InnerTextToClaimedField ==
  \A i \in 1..Len(calls) :
    Trim(calls[i].innerContent) # <<>> =>
      calls[i].attrs =
        Put(ExtractAttributes(calls[i].attributes),
            ClaimedField(ComponentMap(componentsMetadata, calls[i].selector)),
            StrVal(Trim(calls[i].innerContent)))

\* C10 (amended): the inner text of an instance, trimmed, goes to (a) the
\* first of label, text, content, title, value, name, in that order, that
\* is a declared input and is interpolated by the template; (b) otherwise
\* the first declared input the template interpolates; (c) otherwise the
\* first declared input; (d) "label" when the component declares no
\* input or has no template.  <app-button>OK</app-button>, inputs
\* [label, variant], template interpolating only label: {label: "OK"}.
C10_InnerTextToPreferredField ==
  \A i \in 1..Len(calls) :
    Trim(calls[i].innerContent) # <<>> =>
      /\ calls[i].attrs =
           Put(ExtractAttributes(calls[i].attributes),
               PreferredField(ComponentMap(componentsMetadata,
                                           calls[i].selector)),
               StrVal(Trim(calls[i].innerContent)))
      /\ (calls[i].selector = AppButton /\ calls[i].attributes = <<>>
            /\ calls[i].innerContent = <<"OK">>) =>
           calls[i].attrs = <<[key |-> "label", val |-> StrVal(<<"OK">>)]>>

\* <app-chip>Hot</app-chip>, inputs [icon, size], template interpolating
\* size, was expanded with {size: "Hot"}, and the call has returned.
C10_SecondInputChosen ==
  /\ pc = "done"
  /\ \E i \in 1..Len(calls) :
       /\ calls[i].selector = AppChip
       /\ calls[i].innerContent = <<"Hot">>
       /\ calls[i].attrs = <<[key |-> "size", val |-> StrVal(<<"Hot">>)]>>

\* ---- C11
\* What is left of an attribute snippet once the structural directives
\* are gone: nothing of *ngFor, of *ngIf the style that hides the element
\* or nothing, every other snippet as it was written.
Undirected(snippet) ==
  IF HasPrefixAt(snippet, 1, <<"*", "ngFor">>) THEN <<>>
  ELSE IF HasPrefixAt(snippet, 1, <<"*", "ngIf", "=", "\"">>)
  THEN NgIfReplacement(SubSeq(snippet, 5, Len(snippet) - 1))
  ELSE snippet

\* C11: <div *ngFor="let x of items">{{x}}</div>, alone or with further
\* attributes, comes out as one element, once: no iteration is simulated,
\* no *ngFor and no *ngIf attribute is left, and {{x}} is the value of x
\* in the context, or the placeholder x when the context has no key x.
C11_SingleElementNoDirective ==
  (pc = "done" /\ parts \in NgForLists) =>
    /\ converted =
         Element(<<"div">>,
                 AttributeText([i \in 1..Len(parts) |-> Undirected(parts[i])]),
                 IF Has(componentData, "x")
                 THEN StringOf(Get(componentData, "x")) ELSE <<"x">>)
    /\ Cardinality({i \in 1..Len(converted) : converted[i].k = "open"}) = 1
    /\ \A i \in 1..Len(converted) :
         ~Includes(converted[i].attrs, "ngFor")
           /\ ~Includes(converted[i].attrs, "ngIf")

\* The element with the directive alone was rewritten under a context in
\* which x is First.
C11_RepeatedElementRewritten ==
  /\ pc = "done"
  /\ parts = <<NgFor("x", <<"items">>)>>
  /\ Has(componentData, "x")
  /\ converted = Element(<<"div">>, <<" ">>, <<"First">>)

\* ---- C12
\* C12: whatever the page and the registry, the call returns a result: no
\* exception is raised.
C12_NeverRaises == pc # "raised"

\* ---- C13
\* C13: a call leaves the record list it was given as it is, and a call
\* returns what every earlier call with the same page and the same
\* records returned (markup, styles and scripts), whatever calls were
\* made in between: nothing of one invocation is left for the next.
C13_SameArgumentsSameResult ==
  /\ [](\A i, j \in 1..Len(returned) :
          (returned[i].html = returned[j].html
             /\ returned[i].componentsMetadata
                  = returned[j].componentsMetadata) =>
            returned[i].result = returned[j].result)
  /\ [](pc = "done" =>
          \A i \in 1..Len(returned) :
            (returned[i].html = html
               /\ returned[i].componentsMetadata = componentsMetadata) =>
              returned[i].result = Result)
  /\ [][pc # "done" => componentsMetadata' = componentsMetadata]_vars

\* A third call has returned: the first and the third had the same page
\* and records, the second had others, and the calls expanded instances
\* and aggregated styles.
C13_SameCallAfterAnother ==
  /\ pc = "done"
  /\ Len(returned) = 2
  /\ returned[1].html = html
  /\ returned[1].componentsMetadata = componentsMetadata
  /\ returned[2].html # html
  /\ returned[1].result = Result
  /\ allComponentStyles # <<>>
  /\ returned[2].result.componentStyles # <<>>

\* ---- C14

\* The target of the event is, or lies inside, a link, a button, an element
\* with an onclick attribute or an element with role=button.
InsideActionable ==
  \E i \in 1..Len(path) :
    \/ path[i].tagName \in {"A", "BUTTON"}
    \/ path[i].onclick
    \/ path[i].role = "button"

OnFormControl == path[1].tagName \in {"INPUT", "SELECT", "TEXTAREA"}

Neutralised == preventDefault /\ stopPropagation

\* C14: once the guard's listeners are installed, a click whose target is or
\* lies inside a link, a button, an element with onclick or with
\* role=button, or whose target is an input, select or textarea, has its
\* default prevented and its propagation stopped; so has every submit
\* event, and every change event on an input, select or textarea.
C14_GuardNeutralisesEvents ==
  (pc = "dispatched" /\ listening) =>
    /\ (event = "click" /\ (InsideActionable \/ OnFormControl)) => Neutralised
    /\ event = "submit" => Neutralised
    /\ (event = "change" /\ OnFormControl) => Neutralised

\* A click on a span inside a button, dispatched after the guard was
\* installed, was neutralised.
C14_ClickInsideButtonNeutralised ==
  /\ pc = "dispatched" /\ listening /\ event = "click"
  /\ path = <<Node("SPAN", FALSE, ""), Node("BUTTON", FALSE, "")>>
  /\ Neutralised

\* ---- C15

\* An export keyword stands in front of a class declaration.
ExportsClass(s) ==
  \E i \in 1..Len(s) :
    s[i] = "export" /\ HasPrefixAt(s, SkipSpaces(s, i + 1), <<"class">>)

\* C15: the neutralized output of every logic source holds no import
\* statement, on one line or on several, no @Component(...) annotation
\* block, and no export keyword in front of the class declaration.
C15_NoImportDecoratorExport ==
  pc = "done" =>
    /\ ~Includes(jsContent, "import")
    /\ Count(jsContent, <<"@", "Component">>) = 0
    /\ ~ExportsClass(jsContent)

\* ---- C16

\* The atoms of s between the class name and the brace that opens the
\* class body.
AfterClassName(s) ==
  LET name == IndexFrom(s, 1, {"HomeComponent"})
      body == IndexFrom(s, name + 1, {"{"})
  IN  SubSeq(s, name + 1, body - 1)

\* C16: when the class declaration has an implements clause of one or
\* several interfaces, nothing of the clause is left between the class name
\* and the class body: no implements keyword, no interface name, no comma.
C16_ImplementsClauseRemoved ==
  (pc = "done" /\ Includes(ts, "implements")) =>
    \A i \in 1..Len(AfterClassName(jsContent)) :
      AfterClassName(jsContent)[i] \in Space

\* ---- C17

\* C17: the paired-tag loop stops exactly when a pass has left the markup
\* unchanged or the counter has reached maxIterations: a pass starts only
\* when the last one changed the markup and fewer than maxIterations
\* passes have run, and the loop is left only when the markup equals its
\* text before the last pass or the counter has reached maxIterations.
\* (On the empty page no pass runs: the markup equals the initial ''.)
C17_LoopStopsExactly ==
  [][/\ (pc = "loop" /\ iterations' = iterations + 1) =>
          (processedHtml # lastProcessedHtml /\ iterations < maxIterations)
     /\ (pc = "loop" /\ pc' = "done") =>
          (processedHtml = lastProcessedHtml \/ iterations >= maxIterations)
    ]_vars

\* The loop was left after some passes that changed the markup and one
\* that did not, below the cap.
C17_StoppedAfterUnchangedPass ==
  /\ pc = "done"
  /\ iterations >= 2 /\ iterations < maxIterations
  /\ processedHtml = lastProcessedHtml
  /\ processedHtml # html

\* ---- C18

\* The template is one interpolation; its expression, trimmed, and the
\* segments between its dots.
OneInterpolation == Len(parts) = 1 /\ template = Interpolated(parts[1])

Expression == Trim(parts[1])

Segments == Split(Expression, ".")

IsKey == Len(Expression) = 1 /\ Has(componentData, Expression[1])

IsDotPath ==
  /\ Len(Segments) >= 2
  /\ \A i \in 1..Len(Segments) :
       Len(Segments[i]) = 1 /\ IsWord(Segments[i][1])

\* The value the first n segments lead to through the nested objects of
\* the context: a set of one value, or the empty set when a segment cannot
\* be resolved.
RECURSIVE Reached(_)
Reached(n) ==
  IF n = 0 THEN {ObjVal(componentData)}
  ELSE {Get(v.fields, Segments[n][1]) :
          v \in {w \in Reached(n - 1) :
                   w.t = "object" /\ Has(w.fields, Segments[n][1])}}

\* The string form of a value.
TextOf(v) ==
  IF v.t = "boolean" THEN (IF v = BoolVal(TRUE) THEN <<"true">>
                           ELSE <<"false">>)
  ELSE v.s

Paragraph(text) == Element(<<"p">>, <<>>, text)

\* C18: an interpolation whose trimmed expression is a key of the context
\* is replaced by the string form of the value, a boolean as true or
\* false; one whose expression is a dot path is replaced by the string
\* form of the value the path leads to through the nested objects, and by
\* its last segment when a segment cannot be resolved; the call returns.
C18_InterpolationResolved ==
  (pc = "done" /\ OneInterpolation) =>
    /\ IsKey =>
         converted = Paragraph(TextOf(Get(componentData, Expression[1])))
    /\ (~IsKey /\ IsDotPath) =>
         converted =
           Paragraph(IF Reached(Len(Segments)) = {}
                     THEN Segments[Len(Segments)]
                     ELSE TextOf(CHOOSE v \in Reached(Len(Segments)) : TRUE))

\* A path of three segments was walked through two nested objects to the
\* city.
C18_NestedPathResolved ==
  /\ pc = "done" /\ OneInterpolation
  /\ Expression = <<"user", ".", "address", ".", "city">>
  /\ converted = Paragraph(<<"Pune">>)

\* ---- C19

\* currentYear, new Date().getFullYear()
CurrentYearExpressions ==
  {<<"currentYear">>,
   <<"new", " ", "Date", "(", ")", ".", "getFullYear", "(", ")">>}

\* C19: an interpolation whose trimmed expression is not a key of the
\* context is replaced by the current year when the expression is
\* currentYear or new Date().getFullYear(), and otherwise, when it holds
\* no dot path (a method call such as getTotal() included), by its own
\* trimmed text.
C19_YearOrExpressionText ==
  (pc = "done" /\ OneInterpolation /\ ~IsKey) =>
    IF Expression \in CurrentYearExpressions
    THEN converted = Paragraph(CurrentYear)
    ELSE ~Includes(Expression, ".") => converted = Paragraph(Expression)

\* ---- C20

\* The names whose unresolved binding defaults to false, as stated.
ClaimedDefaultFalse == ClaimedBooleanNames \cup {<<"disabled">>}

\* The value of [name]="expr" as stated: the inner text of a quoted
\* literal, the boolean of true or false, the value of the key, and
\* without such a key false on a boolean-style name and the trimmed
\* expression otherwise.
ClaimedValue(n, e, ctx) ==
  LET t == Trim(e)
  IN  IF Len(t) >= 1 /\ Head(t) = "'" /\ t[Len(t)] = "'"
      THEN StrVal(SubSeq(t, 2, Len(t) - 1))
      ELSE IF t = <<"true">> THEN BoolVal(TRUE)
      ELSE IF t = <<"false">> THEN BoolVal(FALSE)
      ELSE IF Len(t) = 1 /\ Has(ctx, t[1]) THEN Get(ctx, t[1])
      ELSE IF ToLowerCase(n) \in ClaimedDefaultFalse THEN BoolVal(FALSE)
      ELSE StrVal(t)

\* C20: a binding [name]="expr", name other than class (and other than
\* disabled, which is removed before any value is resolved), is written
\* from the value resolved as stated: a quoted literal gives its inner
\* text, true or false the boolean, a key of the context its value, and
\* an absent key false when the name is disabled, readonly, required,
\* checked, selected or hidden and the expression text otherwise.
C20_ValueResolvedAsStated ==
  pc = "done" =>
    \A n \in BindingNames, e \in BindingExpressions :
      parts = <<Binding(n, e)>> =>
        converted =
          Element(<<"div">>,
                  <<" ">> \o RenderProperty(n, ClaimedValue(n, e, componentData)),
                  <<"Hello">>)

\* ---- C21

\* The attribute text attrs holds an event binding (eventName)="...".
HoldsEventBinding(attrs) ==
  \E j \in 1..Len(attrs) :
    attrs[j] = "(" /\ HasPrefixAt(attrs, j + 2, <<")", "=", Q>>)

\* C21: after the call no event binding (eventName)="handler" is left in
\* the output, whatever the event name: click, mouseenter, mouseleave,
\* keyup or the name of a component's output.
C21_NoEventBindingLeft ==
  pc = "done" =>
    \A i \in 1..Len(converted) : ~HoldsEventBinding(converted[i].attrs)

\* ---- C22

\* The condition, trimmed and in lower case, names a loading, an empty or
\* an error state.
NamesHiddenState(cond) ==
  LET c == ToLowerCase(Trim(cond))
  IN  \/ IncludesText(c, "loading")
      \/ /\ Includes(c, "!")
         /\ \E w \in {"data", "record", "item"} : IncludesText(c, w)
      \/ Count(c, <<"length", " ", "=", "=", "=", " ", "0">>) > 0
      \/ IncludesText(c, "error")

DisplayNone ==
  <<"style", "=", Q, "display", ":", " ", "none", " ", "!", "important",
    ";", Q>>

\* C22: an *ngIf="cond" attribute is replaced by the inline style
\* display: none !important exactly when cond in lower case contains
\* loading, or ! together with data, record or item, or length === 0, or
\* error; otherwise it is replaced by nothing; no *ngIf is left.
C22_NgIfHiddenExactlyWhen ==
  pc = "done" =>
    \A c \in NgIfConditions :
      parts = <<NgIf(c)>> =>
        converted =
          Element(<<"div">>,
                  <<" ">> \o (IF NamesHiddenState(c) THEN DisplayNone
                              ELSE <<>>),
                  <<"Hello">>)

\* An element whose condition negates a record count was hidden.
C22_NegatedRecordsHidden ==
  /\ pc = "done"
  /\ parts = <<NgIf(<<"!", "records", ".", "length">>)>>
  /\ converted = Element(<<"div">>, <<" ">> \o DisplayNone, <<"Hello">>)

\* ---- C23

\* The value an attribute as written gives its key.
WrittenValue(a) ==
  CASE a.kind = "binding" -> StrVal(StripQuotes(a.value))
    [] a.kind = "plain" -> StrVal(a.value)
    [] a.kind = "bare" -> BoolVal(TRUE)

\* The attributes of l in the order they are parsed: bindings, then the
\* others; and the first of them parsed for the key k.
ParseOrder(l) ==
  SelectSeq(l, LAMBDA a : a.kind = "binding")
    \o SelectSeq(l, LAMBDA a : a.kind # "binding")

FirstParsed(l, k) ==
  ParseOrder(l)[Least({i \in 1..Len(l) : ParseOrder(l)[i].name = <<k>>})]

\* The attribute names of l that are one word.
WordNames(l) ==
  {l[i].name[1] : i \in {j \in 1..Len(l) : Len(l[j].name) = 1}}

\* C23: the context of an instance is built from the bindings first and
\* the plain and bare attributes second, and a key once set is not
\* overwritten by an attribute parsed later for the same key, be it a
\* second binding or a plain attribute: without inner text, every key
\* written on the tag holds the value of the first attribute parsed for it.
C23_FirstParsedKept ==
  \A i \in 1..Len(calls) :
    \A l \in InstanceAttributeLists(MaxInstanceAttributes) :
      (/\ calls[i].attributes = InstanceAttributeText(l)
       /\ Trim(calls[i].innerContent) = <<>>) =>
        \A k \in WordNames(l) :
          /\ Has(calls[i].attrs, k)
          /\ Get(calls[i].attrs, k) = WrittenValue(FirstParsed(l, k))

\* ---- C24

\* The keys of a context that are not a name written in l.
UnwrittenKeys(ctx, l) ==
  {ctx[j].key : j \in {n \in 1..Len(ctx) :
                         \A m \in 1..Len(l) : l[m].name # <<ctx[n].key>>}}

\* C24: every key of an instance's context is an attribute name exactly as
\* written on the tag, except for at most one key added from the inner
\* text: no word from inside a binding's expression and no part of a
\* hyphenated name is a key.
C24_KeysAreWrittenNames ==
  \A i \in 1..Len(calls) :
    \A l \in InstanceAttributeLists(MaxInstanceAttributes) :
      calls[i].attributes = InstanceAttributeText(l) =>
        /\ Cardinality(UnwrittenKeys(calls[i].attrs, l)) <= 1
        /\ Trim(calls[i].innerContent) = <<>> =>
             UnwrittenKeys(calls[i].attrs, l) = {}

\* ---- C27

\* C27: when an instance of the button has an attribute or a binding for
\* label, the field its inner text goes to, and inner text that is not
\* blank, the context holds the trimmed inner text under label; when the
\* inner text is empty or blank, the context is that of the attributes
\* alone.
C27_InnerTextReplacesExplicit ==
  \A i \in 1..Len(calls) :
    \A l \in InstanceAttributeLists(MaxInstanceAttributes) :
      calls[i].attributes = InstanceAttributeText(l) =>
        IF Trim(calls[i].innerContent) = <<>>
        THEN calls[i].attrs = ExtractAttributes(calls[i].attributes)
        ELSE "label" \in WordNames(l) =>
               /\ Has(calls[i].attrs, "label")
               /\ Get(calls[i].attrs, "label")
                    = StrVal(Trim(calls[i].innerContent))

\* <app-button label="Stop"> Save </app-button> was expanded with the
\* label Save.
C27_ExplicitLabelReplaced ==
  /\ pc = "done"
  /\ html = Element(AppButton, <<" ">> \o Attr(<<"label">>, <<"Stop">>),
                    <<" ", "Save", " ">>)
  /\ Len(calls) = 1
  /\ Get(calls[1].attrs, "label") = StrVal(<<"Save">>)

\* ---- C25

\* The name in lower case with the trailing component removed and nothing
\* else changed.
SuffixStripped(name) ==
  CASE name = <<"AppButtonComponent">> -> <<"appbutton">>
    [] name = <<"AppBadgeComponent">> -> <<"appbadge">>
    [] name = <<"ComponentListComponent">> -> <<"componentlist">>
    [] name = <<"Header">> -> <<"header">>

\* C25: a record with neither id_name nor selector is registered under
\* its name in lower case with the trailing component suffix removed and
\* nothing else changed, and the lookup of that selector gives the record.
C25_RegisteredUnderStrippedName ==
  (pc \in {"loop", "done"} /\ componentsMetadata # <<>>) =>
    \A i \in 1..Len(componentsMetadata) :
      (/\ componentsMetadata[i].id_name = <<>>
       /\ componentsMetadata[i].selector = <<>>) =>
        /\ InComponentMap(componentsMetadata,
                          SuffixStripped(componentsMetadata[i].name))
        /\ ComponentMap(componentsMetadata,
                        SuffixStripped(componentsMetadata[i].name))
             = componentsMetadata[i]

\* ---- C26

\* x stands in the markup m.
Contains(m, x) ==
  \E i \in 1..(Len(m) - Len(x) + 1) : SubSeq(m, i, i + Len(x) - 1) = x

\* C26: only a tag whose name holds a hyphen is treated as an instance: a
\* tag without hyphen whose selector is registered is never expanded,
\* stays verbatim in the output, and adds no styles and no script.
C26_HyphenlessTagUntouched ==
  /\ \A i \in 1..Len(calls) : Includes(calls[i].selector, "-")
  /\ pc = "done" =>
       \A x \in DerivedSnippets :
         Contains(html, x) =>
           /\ Contains(processedHtml, x)
           /\ Count(allComponentStyles, <<"for", " ">> \o x[1].tag) = 0
           /\ Count(allComponentScripts, <<"for", " ">> \o x[1].tag) = 0

\* The call returned a page on which a registered instance with a hyphen
\* was expanded and <appbadge>New</appbadge>, registered through the
\* name of its record, was left as it stood.
C26_RegisteredBadgeLeft ==
  /\ pc = "done"
  /\ InComponentMap(componentsMetadata, <<"appbadge">>)
  /\ Contains(html, Element(<<"appbadge">>, <<>>, <<"New">>))
  /\ Contains(processedHtml, Element(<<"appbadge">>, <<>>, <<"New">>))
  /\ calls # <<>>

\* ---- C28

\* C28: in every state the wizard reaches through chat submit, elements
\* continue, download generation and reset, in any order, the completion
\* flags are nested: download implies elements and elements implies chat.
C28_CompletionNested ==
  /\ completedPages.download => completedPages.elements
  /\ completedPages.elements => completedPages.chat

\* ---- C29

\* A run of generateFiles ends in the step: the one of the mounted page
\* or the one of a page unmounted since.
GenerationEnds ==
  \/ generateFiles # "idle" /\ generateFiles' = "idle" /\ detached' = detached
  \/ detached # "idle" /\ detached' = "idle"

C30_QuiescentAfterFailure ==
  [][(/\ integrationError # ""
      /\ integration = "idle"
      /\ integration' = "post") =>
       <<htmlContent, tsContent, rawComponentName(generatedFiles)>>
         # SubSeq(integrationDeps, 1, 3)]_vars

====
